---- MODULE Spec2Model ----
(***************************************************************************)
(* Warehouse simulation engine (src/backend.cpp, namespace ws).           *)
(*                                                                         *)
(* Numeric conventions of the model.                                       *)
(*   - float fractions are kept as exact integers: orderProbability and    *)
(*     discountPercent in percent, discountDemandBoost in tenths,          *)
(*     secondsPerDay in hundredths, basePricePerUnit in cents,             *)
(*     Batch::unitPrice and all money sums in 1/100 cent; NaN is the one   *)
(*     float value that is not a number;                                   *)
(*   - std::mt19937 is a deterministic generator: its state is modelled    *)
(*     by a 16 bit congruential generator, every distribution call         *)
(*     advances it by one step and maps the new state into the requested   *)
(*     range;                                                              *)
(*   - product ids are 0-based as in the source, sequences are 1-based:    *)
(*     the queue of product pid is inv[pid + 1].                           *)
(***************************************************************************)
EXTENDS Integers, Sequences, FiniteSets, TLC

VARIABLES cfg, rng, day, inv, products, shopNames, pipeline, shipmentsByDay,
          todaysOrders, todaysStats, totalStats, log, dailyAnims,
          ev, lastCall, callArg, statsHistory, opDone, twin, placed, edited,
          prior, ui

progVars == <<cfg, rng, day, inv, products, shopNames, pipeline,
              shipmentsByDay, todaysOrders, todaysStats, totalStats, log,
              dailyAnims>>

vars == <<cfg, rng, day, inv, products, shopNames, pipeline, shipmentsByDay,
          todaysOrders, todaysStats, totalStats, log, dailyAnims,
          ev, lastCall, callArg, statsHistory, opDone, twin, placed,
          edited, prior, ui>>

(***************************************************************************)
(* Bounds of the exploration.                                              *)
(***************************************************************************)
MaxSeed == 2
MaxOpDay == 2

\* the days after which the tuning and the product configs are changed:
\* before the first day of a run and after day MaxOpDay - 1
OpDays == {0, MaxOpDay - 1}

(***************************************************************************)
(* Arithmetic helpers.                                                     *)
(***************************************************************************)
Min(a, b) == IF a < b THEN a ELSE b
Max(a, b) == IF a > b THEN a ELSE b
Clamp(v, lo, hi) == IF v < lo THEN lo ELSE IF hi < v THEN hi ELSE v

\* a float that is not a number, kept apart from every number the model
\* uses; a comparison with it is false whichever way round (IEEE 754)
NaN == 0 - 1000000

Less(a, b) == a # NaN /\ b # NaN /\ a < b

\* arithmetic in which NaN is absorbing
Plus(a, b) == IF a = NaN \/ b = NaN THEN NaN ELSE a + b
Minus(a, b) == IF a = NaN \/ b = NaN THEN NaN ELSE a - b
Times(a, b) == IF a = NaN \/ b = NaN THEN NaN ELSE a * b

\* std::clamp on floats: (v < lo) ? lo : (hi < v) ? hi : v
ClampFloat(v, lo, hi) == IF Less(v, lo) THEN lo ELSE IF Less(hi, v) THEN hi ELSE v

RECURSIVE SumSeq(_)
SumSeq(q) == IF q = <<>> THEN 0 ELSE Head(q) + SumSeq(Tail(q))

(***************************************************************************)
(* Random stream.                                                          *)
(***************************************************************************)
RngSeed(seed) == seed % 65536
RngNext(s) == (s * 25173 + 13849) % 65536
RngRaw(s) == s \div 16

RandInt(s, lo, hi) ==
    LET n == RngNext(s)
    IN [v |-> lo + (RngRaw(n) % (hi - lo + 1)), rng |-> n]

RandFloat(s, lo, hi) ==
    LET n == RngNext(s)
    IN [v |-> IF hi = NaN THEN NaN
              ELSE IF hi > lo THEN lo + ((RngRaw(n) * (hi - lo)) \div 4096)
              ELSE lo,
        rng |-> n]

Clamp01(x) == IF Less(x, 0) THEN 0 ELSE IF Less(100, x) THEN 100 ELSE x

RandBernoulli(s, p) ==
    LET n == RngNext(s)
    IN [v |-> Less((RngRaw(n) * 100) \div 4096, Clamp01(p)), rng |-> n]

(***************************************************************************)
(* Public structs and their defaults.                                      *)
(***************************************************************************)
DefaultProduct ==
    [name |-> 0, unitsPerPackage |-> 10, capacityPackages |-> 20,
     shelfLifeDays |-> 14, discountBeforeDays |-> 3,
     basePricePerUnit |-> 100, discountPercent |-> 25,
     reorderThreshold |-> 6, reorderAmount |-> 12]

ZeroStats ==
    [revenue |-> 0, discountLoss |-> 0, writeOffLoss |-> 0,
     totalSoldUnits |-> 0, totalWriteOffUnits |-> 0]

DefaultConfig ==
    [N |-> 20, M |-> 5, K |-> 12, seed |-> 12345,
     orderProbability |-> 85, maxLinesPerOrder |-> 6,
     minUnitsPerLine |-> 5, maxUnitsPerLine |-> 120,
     discountDemandBoost |-> 20,
     supplierLeadTimeMin |-> 1, supplierLeadTimeMax |-> 5,
     secondsPerDay |-> 600]

ClampConfig(c) ==
    LET minU == Max(1, c.minUnitsPerLine)
        ltMin == Clamp(c.supplierLeadTimeMin, 1, 30)
    IN [c EXCEPT
          !.N = Clamp(c.N, 10, 30),
          !.M = Clamp(c.M, 3, 9),
          !.K = Clamp(c.K, 12, 20),
          !.orderProbability = ClampFloat(c.orderProbability, 0, 100),
          !.maxLinesPerOrder = Clamp(c.maxLinesPerOrder, 1, 20),
          !.minUnitsPerLine = minU,
          !.maxUnitsPerLine = Max(minU, c.maxUnitsPerLine),
          !.discountDemandBoost = ClampFloat(c.discountDemandBoost, 0, 100),
          !.supplierLeadTimeMin = ltMin,
          !.supplierLeadTimeMax = Clamp(c.supplierLeadTimeMax, ltMin, 60),
          !.secondsPerDay = ClampFloat(c.secondsPerDay, 25, 3000)]

ClampProduct(p) ==
    LET cap == Clamp(p.capacityPackages, 0, 5000)
        shelf == Clamp(p.shelfLifeDays, 1, 365)
    IN [p EXCEPT
          !.unitsPerPackage = Clamp(p.unitsPerPackage, 1, 1000),
          !.capacityPackages = cap,
          !.shelfLifeDays = shelf,
          !.discountBeforeDays = Clamp(p.discountBeforeDays, 0, shelf),
          !.basePricePerUnit = Max(1, p.basePricePerUnit),
          !.discountPercent = ClampFloat(p.discountPercent, 0, 95),
          !.reorderThreshold = Clamp(p.reorderThreshold, 0, cap),
          !.reorderAmount = Clamp(p.reorderAmount, 0, cap)]

(***************************************************************************)
(* Warehouse: per-product batch queues.                                    *)
(***************************************************************************)
ValidPid(w, pid) == pid >= 0 /\ pid < Len(w)

RECURSIVE SumPackages(_)
SumPackages(dq) ==
    IF dq = <<>> THEN 0 ELSE Head(dq).packages + SumPackages(Tail(dq))

\* variant: an index out of range is taken for the nearest product
TotalPackagesNearest(w, pid) ==
    IF w = <<>> THEN 0 ELSE SumPackages(w[Clamp(pid + 1, 1, Len(w))])

TotalPackages(w, pid) ==
    IF ~ValidPid(w, pid) THEN 0 ELSE SumPackages(w[pid + 1])

HasDiscountStock(w, pid) ==
    IF ~ValidPid(w, pid) THEN FALSE
    ELSE \E i \in 1..Len(w[pid + 1]) :
            w[pid + 1][i].packages > 0 /\ w[pid + 1][i].discounted

DiscountedPrice(pc) ==
    Times(pc.basePricePerUnit, Minus(100, pc.discountPercent))
BasePrice(pc) == pc.basePricePerUnit * 100

\* variant: the new batch goes to the front of the queue
ReceiveAtFront(w, pid, packages, pc) ==
    IF ~ValidPid(w, pid) THEN w
    ELSE IF packages <= 0 THEN w
    ELSE [w EXCEPT ![pid + 1] =
            <<[packages |-> packages, daysLeft |-> pc.shelfLifeDays,
               discounted |-> FALSE, unitPrice |-> BasePrice(pc)]>> \o @]

Receive(w, pid, packages, pc) ==
    IF ~ValidPid(w, pid) THEN w
    ELSE IF packages <= 0 THEN w
    ELSE [w EXCEPT ![pid + 1] =
            Append(@, [packages |-> packages, daysLeft |-> pc.shelfLifeDays,
                       discounted |-> FALSE, unitPrice |-> BasePrice(pc)])]

(***************************************************************************)
(* Warehouse operations used by AdvanceDay.                                *)
(***************************************************************************)
DecrementShelfLife(w) ==
    [p \in 1..Len(w) |->
        [i \in 1..Len(w[p]) |-> [w[p][i] EXCEPT !.daysLeft = @ - 1]]]

\* the pop_front loop of WriteOffExpired (lines 200-203)
RECURSIVE PopExpired(_, _)
PopExpired(dq, n) ==
    IF dq # <<>> /\ Head(dq).daysLeft <= 0
    THEN PopExpired(Tail(dq), n + Head(dq).packages)
    ELSE [dq |-> dq, n |-> n]

\* variant: the written-off packages are booked as units
BookWriteOffPackages(st, writeOffPackages, pc) ==
    IF writeOffPackages > 0
    THEN [st EXCEPT
            !.totalWriteOffUnits = @ + writeOffPackages,
            !.writeOffLoss =
                @ + (writeOffPackages * pc.unitsPerPackage) * BasePrice(pc)]
    ELSE st

BookWriteOff(st, writeOffPackages, pc) ==
    IF writeOffPackages > 0
    THEN [st EXCEPT
            !.totalWriteOffUnits = @ + writeOffPackages * pc.unitsPerPackage,
            !.writeOffLoss =
                @ + (writeOffPackages * pc.unitsPerPackage) * BasePrice(pc)]
    ELSE st

WrittenOff(w, pid, pc, st, r) ==
    [inv |-> [w EXCEPT ![pid + 1] = r.dq],
     st |-> BookWriteOff(st, r.n, pc),
     pk |-> r.n]

WriteOffExpired(w, pid, pc, st) ==
    IF ~ValidPid(w, pid) THEN [inv |-> w, st |-> st, pk |-> 0]
    ELSE WrittenOff(w, pid, pc, st, PopExpired(w[pid + 1], 0))

\* variant: the batch's own flag is not consulted
NeedsDiscountAgain(b, pc) ==
    b.daysLeft > 0 /\ b.daysLeft <= pc.discountBeforeDays

NeedsDiscount(b, pc) ==
    ~b.discounted /\ b.daysLeft > 0 /\ b.daysLeft <= pc.discountBeforeDays

\* variant: only the front batch is examined
DiscountBatchesFrontOnly(dq, pc) ==
    [i \in 1..Len(dq) |->
        IF i = 1 /\ NeedsDiscount(dq[i], pc)
        THEN [dq[i] EXCEPT !.discounted = TRUE,
                           !.unitPrice = DiscountedPrice(pc)]
        ELSE dq[i]]

DiscountBatches(dq, pc) ==
    [i \in 1..Len(dq) |->
        IF NeedsDiscount(dq[i], pc)
        THEN [dq[i] EXCEPT !.discounted = TRUE,
                           !.unitPrice = DiscountedPrice(pc)]
        ELSE dq[i]]

AffectedPackages(dq, pc) ==
    SumSeq([i \in 1..Len(dq) |->
        IF NeedsDiscount(dq[i], pc) THEN dq[i].packages ELSE 0])

ApplyDiscountIfNeeded(w, pid, pc) ==
    IF ~ValidPid(w, pid) THEN [inv |-> w, aff |-> 0]
    ELSE [inv |-> [w EXCEPT ![pid + 1] = DiscountBatches(@, pc)],
          aff |-> AffectedPackages(w[pid + 1], pc)]

\* variant: a batch outside the discount window loses its flag
RepriceQueueRevokes(dq, pc) ==
    [i \in 1..Len(dq) |->
        [dq[i] EXCEPT
           !.discounted = @ /\ dq[i].daysLeft <= pc.discountBeforeDays,
           !.unitPrice =
               IF dq[i].discounted /\ dq[i].daysLeft <= pc.discountBeforeDays
               THEN DiscountedPrice(pc) ELSE BasePrice(pc)]]

RepriceQueue(dq, pc) ==
    [i \in 1..Len(dq) |->
        [dq[i] EXCEPT !.unitPrice =
            IF dq[i].discounted THEN DiscountedPrice(pc) ELSE BasePrice(pc)]]

RepriceBatches(w, pid, pc) ==
    IF ~ValidPid(w, pid) THEN w
    ELSE [w EXCEPT ![pid + 1] = RepriceQueue(@, pc)]

\* one pass of the drain loop of FulfillLine (lines 284-298)
SellFrom(st, b, take, pc) ==
    [st EXCEPT
       !.revenue = Plus(@, Times(take * pc.unitsPerPackage, b.unitPrice)),
       !.totalSoldUnits = @ + take * pc.unitsPerPackage,
       !.discountLoss =
           IF b.discounted
           THEN Plus(@, Minus((take * pc.unitsPerPackage) * BasePrice(pc),
                              Times(take * pc.unitsPerPackage, b.unitPrice)))
           ELSE @]

\* variant: the last batch of a queue stays in it when it is emptied
TakeFrontKeepsLast(dq, take) ==
    IF Head(dq).packages - take = 0 /\ Len(dq) > 1 THEN Tail(dq)
    ELSE <<[Head(dq) EXCEPT !.packages = @ - take]>> \o Tail(dq)

\* variant: a batch drained in part goes to the back of the queue
TakeFrontRotates(dq, take) ==
    IF Head(dq).packages - take = 0 THEN Tail(dq)
    ELSE Tail(dq) \o <<[Head(dq) EXCEPT !.packages = @ - take]>>

TakeFront(dq, take) ==
    IF Head(dq).packages - take = 0 THEN Tail(dq)
    ELSE <<[Head(dq) EXCEPT !.packages = @ - take]>> \o Tail(dq)

RECURSIVE Drain(_, _, _, _)
Drain(dq, remaining, pc, st) ==
    IF remaining > 0 /\ dq # <<>>
    THEN Drain(TakeFront(dq, Min(remaining, Head(dq).packages)),
               remaining - Min(remaining, Head(dq).packages),
               pc,
               SellFrom(st, Head(dq), Min(remaining, Head(dq).packages), pc))
    ELSE [dq |-> dq, st |-> st, remaining |-> remaining]

(***************************************************************************)
(* Single-precision arithmetic of the package quantization (line 254): a   *)
(* float has 24 significant bits, results round to nearest, ties to even.  *)
(* A float x >= 0 is held as [int, num, bits], x = int + num / 2^bits with *)
(* 0 <= num < 2^bits.                                                      *)
(***************************************************************************)
RECURSIVE BitLen(_)
BitLen(n) == IF n <= 0 THEN 0 ELSE 1 + BitLen(n \div 2)

RoundUp(q, r, d) ==
    IF 2 * r < d THEN q
    ELSE IF 2 * r > d THEN q + 1
    ELSE IF q % 2 = 0 THEN q ELSE q + 1

RoundHalfEven(n, d) == RoundUp(n \div d, n % d, d)

\* float(n) of an int n >= 0
F32FromInt(n) ==
    IF BitLen(n) <= 24 THEN n
    ELSE RoundHalfEven(n, 2 ^ (BitLen(n) - 24)) * 2 ^ (BitLen(n) - 24)

\* the first k binary digits of r / b, and what is left of r
RECURSIVE FracBits(_, _, _, _)
FracBits(r, b, k, acc) ==
    IF k = 0 THEN [m |-> acc, r |-> r]
    ELSE FracBits((2 * r) % b, b, k - 1, 2 * acc + (2 * r) \div b)

Normal(m, k) == [int |-> m \div 2 ^ k, num |-> m % 2 ^ k, bits |-> k]

Mantissa(fl0, b, k, fb) == Normal(RoundUp(fl0 * 2 ^ k + fb.m, fb.r, b), k)

\* a / b for floats a, b holding integers, 1 <= b <= 1000.  Below 1 the
\* quotient is kept to 24 binary places (the float keeps more: no
\* comparison made with it here can tell the two apart).
F32Div(a, b) ==
    IF BitLen(a \div b) >= 24
    THEN [int |-> RoundHalfEven(a, b * 2 ^ (BitLen(a \div b) - 24))
                      * 2 ^ (BitLen(a \div b) - 24),
          num |-> 0, bits |-> 0]
    ELSE Mantissa(a \div b, b, 24 - BitLen(a \div b),
                  FracBits(a % b, b, 24 - BitLen(a \div b), 0))

\* line 254
Exact(requestedUnits, unitsPerPackage) ==
    F32Div(F32FromInt(requestedUnits), unitsPerPackage)

\* lines 255-265: errFl = num / 2^bits, errCe = 1 - errFl
TieOf(x) == x.num # 0 /\ 2 * x.num = 2 ^ x.bits

IsTie(requestedUnits, unitsPerPackage) ==
    TieOf(Exact(requestedUnits, unitsPerPackage))

NearestOf(x, coin) ==
    IF x.num = 0 THEN x.int
    ELSE IF 2 * x.num < 2 ^ x.bits THEN x.int
    ELSE IF 2 * x.num > 2 ^ x.bits THEN x.int + 1
    ELSE IF coin THEN x.int ELSE x.int + 1

Nearest(requestedUnits, unitsPerPackage, coin) ==
    NearestOf(Exact(requestedUnits, unitsPerPackage), coin)

\* lines 268-272
Jitter(chosen, jit, dir) ==
    IF jit THEN Max(0, chosen + (IF dir THEN 0 - 1 ELSE 1)) ELSE chosen

ForceOne(chosen) == IF chosen = 0 THEN 1 ELSE chosen

Perturbed(c1, tie, jit, dir) ==
    [chosen |-> ForceOne(Jitter(c1, jit.v, dir.v)),
     rng |-> IF jit.v THEN dir.rng ELSE jit.rng,
     tie |-> tie, rounded |-> c1,
     delta |-> IF jit.v THEN (IF dir.v THEN 0 - 1 ELSE 1) ELSE 0]

PerturbFrom(c1, tie, jit) ==
    Perturbed(c1, tie, jit, RandBernoulli(jit.rng, 50))

RoundWithCoin(requestedUnits, unitsPerPackage, g, coin) ==
    IF IsTie(requestedUnits, unitsPerPackage)
    THEN PerturbFrom(Nearest(requestedUnits, unitsPerPackage, coin.v), TRUE,
                     RandBernoulli(coin.rng, 35))
    ELSE PerturbFrom(Nearest(requestedUnits, unitsPerPackage, FALSE), FALSE,
                     RandBernoulli(g, 35))

ChoosePackages(requestedUnits, unitsPerPackage, g) ==
    RoundWithCoin(requestedUnits, unitsPerPackage, g, RandBernoulli(g, 50))

FulfilObservation(w, line, pc, st, ch, give, dr) ==
    [pid |-> line.productId,
     requestedUnits |-> line.requestedUnits,
     unitsPerPackage |-> pc.unitsPerPackage,
     chosen |-> ch.chosen, tie |-> ch.tie,
     rounded |-> ch.rounded, delta |-> ch.delta,
     available |-> TotalPackages(w, line.productId),
     delivered |-> give,
     deliveredUnits |-> give * pc.unitsPerPackage,
     totalAfter |-> SumPackages(dr.dq),
     soldUnits |-> dr.st.totalSoldUnits - st.totalSoldUnits,
     qBefore |-> w[line.productId + 1],
     qAfter |-> dr.dq,
     wBefore |-> w,
     wAfter |-> [w EXCEPT ![line.productId + 1] = dr.dq]]

\* variant: the line reports the chosen packages as delivered
DrainedReportsChosen(w, line, pc, st, ch, give, dr) ==
    [inv |-> [w EXCEPT ![line.productId + 1] = dr.dq],
     line |-> [line EXCEPT !.chosenPackages = ch.chosen,
                           !.deliveredPackages = ch.chosen,
                           !.deliveredUnits = ch.chosen * pc.unitsPerPackage],
     rng |-> ch.rng,
     st |-> dr.st,
     obs |-> <<FulfilObservation(w, line, pc, st, ch, give, dr)>>]

Drained(w, line, pc, st, ch, give, dr) ==
    [inv |-> [w EXCEPT ![line.productId + 1] = dr.dq],
     line |-> [line EXCEPT !.chosenPackages = ch.chosen,
                           !.deliveredPackages = give,
                           !.deliveredUnits = give * pc.unitsPerPackage],
     rng |-> ch.rng,
     st |-> dr.st,
     obs |-> <<FulfilObservation(w, line, pc, st, ch, give, dr)>>]

Give(w, line, pc, st, ch, give) ==
    Drained(w, line, pc, st, ch, give,
            Drain(w[line.productId + 1], give, pc, st))

\* variant: the available stock does not cap the delivery
DeliverUncapped(w, line, pc, st, ch) ==
    Give(w, line, pc, st, ch, ch.chosen)

Deliver(w, line, pc, st, ch) ==
    Give(w, line, pc, st, ch,
         Min(ch.chosen, TotalPackages(w, line.productId)))

FulfillLine(w, line, pc, g, st) ==
    IF line.requestedUnits <= 0 \/ pc.unitsPerPackage <= 0
    THEN [inv |-> w, line |-> line, rng |-> g, st |-> st, obs |-> <<>>]
    ELSE Deliver(w, line, pc, st,
                 ChoosePackages(line.requestedUnits, pc.unitsPerPackage, g))

(***************************************************************************)
(* History of the internal steps of the last API call: the locals of       *)
(* AdvanceDay (arrivals, shipmentsDueToday, the write-off per product)     *)
(* and what each internal call saw and did.                                *)
(***************************************************************************)
NoEvents ==
    [effective |-> FALSE, arrivals |-> <<>>, recv |-> <<>>, arr |-> <<>>,
     wo |-> <<>>, ful |-> <<>>, req |-> <<>>, due |-> <<>>,
     pipeBefore |-> <<>>, rngBeforeAnims |-> 0, disc |-> <<>>]

ReceiveEvent(pid, packages, w2, pc) ==
    [pid |-> pid, packages |-> packages,
     total |-> TotalPackages(w2, pid), cap |-> pc.capacityPackages]

(***************************************************************************)
(* SimulatorImpl::PushLog, SimulatorImpl::Reset, CreateSimulator.          *)
(***************************************************************************)
TrimmedKeepsOldest(l2) ==
    IF Len(l2) > 400 THEN SubSeq(l2, 1, 400) ELSE l2

Trimmed(l2) ==
    IF Len(l2) > 400 THEN SubSeq(l2, Len(l2) - 400 + 1, Len(l2)) ELSE l2

PushLog(lg, e) == Trimmed(Append(lg, e))

LogEntry(k, a, b, c) == [k |-> k, a |-> a, b |-> b, c |-> c, d |-> 0]

\* lines 369-381: the generated parameters of product i
DrawProduct(g, i) ==
    LET r1 == RandInt(g, 6, 24)
        r2 == RandInt(r1.rng, 18, 40)
        r3 == RandInt(r2.rng, 7, 25)
        r4 == RandFloat(r3.rng, 80, 550)
    IN [pc |-> ClampProduct(
                 [name |-> i + 1,
                  unitsPerPackage |-> r1.v,
                  capacityPackages |-> r2.v,
                  shelfLifeDays |-> r3.v,
                  discountBeforeDays |-> Min(5, Max(2, r3.v \div 5)),
                  basePricePerUnit |-> r4.v,
                  discountPercent |-> 25,
                  reorderThreshold |-> Max(3, r2.v \div 5),
                  reorderAmount |-> Max(4, r2.v \div 2)]),
        rng |-> r4.rng]

\* line 384: round(capacity * factor), factor in percent
InitialPackages(pc, f) == (pc.capacityPackages * f + 50) \div 100

Stocked(s, i, pc, g, initP, w2) ==
    [s EXCEPT !.rng = g,
              !.products[i + 1] = pc,
              !.inv = w2,
              !.ev.recv = Append(@, ReceiveEvent(i, initP, w2, pc))]

StockWith(s, i, pc, g, initP) ==
    Stocked(s, i, pc, g, initP, Receive(s.inv, i, initP, pc))

StockProduct(s, i, pc, f) ==
    StockWith(s, i, pc, f.rng, InitialPackages(pc, f.v))

ResetProduct(s, i, d) == StockProduct(s, i, d.pc, RandFloat(d.rng, 30, 71))

RECURSIVE ResetProducts(_, _)
ResetProducts(s, i) ==
    IF i >= s.cfg.K THEN s
    ELSE ResetProducts(ResetProduct(s, i, DrawProduct(s.rng, i)), i + 1)

\* variant: the shipments on file outlive the reset
ClearedKeepsShipments(s, cc) ==
    [s EXCEPT
       !.cfg = cc,
       !.rng = RngSeed(cc.seed),
       !.day = 0,
       !.inv = [i \in 1..cc.K |-> <<>>],
       !.products = [i \in 1..cc.K |-> DefaultProduct],
       !.pipeline = <<>>,
       !.todaysOrders = <<>>,
       !.todaysStats = ZeroStats,
       !.totalStats = ZeroStats,
       !.log = <<>>,
       !.dailyAnims = <<>>,
       !.shopNames = [i \in 1..cc.M |-> i],
       !.ev = NoEvents]

\* variant: the supplier pipeline outlives the reset
ClearedKeepsPipeline(s, cc) ==
    [s EXCEPT
       !.cfg = cc,
       !.rng = RngSeed(cc.seed),
       !.day = 0,
       !.inv = [i \in 1..cc.K |-> <<>>],
       !.products = [i \in 1..cc.K |-> DefaultProduct],
       !.shipmentsByDay = <<>>,
       !.todaysOrders = <<>>,
       !.todaysStats = ZeroStats,
       !.totalStats = ZeroStats,
       !.log = <<>>,
       !.dailyAnims = <<>>,
       !.shopNames = [i \in 1..cc.M |-> i],
       !.ev = NoEvents]

\* variant: the random stream is not reseeded
ClearedKeepsRng(s, cc) ==
    [s EXCEPT
       !.cfg = cc,
       !.day = 0,
       !.inv = [i \in 1..cc.K |-> <<>>],
       !.products = [i \in 1..cc.K |-> DefaultProduct],
       !.pipeline = <<>>,
       !.shipmentsByDay = <<>>,
       !.todaysOrders = <<>>,
       !.todaysStats = ZeroStats,
       !.totalStats = ZeroStats,
       !.log = <<>>,
       !.dailyAnims = <<>>,
       !.shopNames = [i \in 1..cc.M |-> i],
       !.ev = NoEvents]

\* lines 343-360
Cleared(s, cc) ==
    [s EXCEPT
       !.cfg = cc,
       !.rng = RngSeed(cc.seed),
       !.day = 0,
       !.inv = [i \in 1..cc.K |-> <<>>],
       !.products = [i \in 1..cc.K |-> DefaultProduct],
       !.pipeline = <<>>,
       !.shipmentsByDay = <<>>,
       !.todaysOrders = <<>>,
       !.todaysStats = ZeroStats,
       !.totalStats = ZeroStats,
       !.log = <<>>,
       !.dailyAnims = <<>>,
       !.shopNames = [i \in 1..cc.M |-> i],
       !.ev = NoEvents]

LogReset(s) == [s EXCEPT !.log = PushLog(@, LogEntry("reset", 0, 0, 0))]

Reset(s, c) == LogReset(ResetProducts(Cleared(s, ClampConfig(c)), 0))

\* the member initialisers of SimulatorImpl::SimulatorImpl
Constructed(c) ==
    [cfg |-> c, rng |-> RngSeed(c.seed), day |-> 0,
     inv |-> [i \in 1..c.K |-> <<>>], products |-> <<>>, shopNames |-> <<>>,
     pipeline |-> <<>>, shipmentsByDay |-> <<>>, todaysOrders |-> <<>>,
     todaysStats |-> ZeroStats, totalStats |-> ZeroStats, log |-> <<>>,
     dailyAnims |-> <<>>, ev |-> NoEvents]

NewSimulator(cc) == Reset(Constructed(cc), cc)

CreateSimulator(c) == NewSimulator(ClampConfig(c))

ResetSimulator(s, c) == Reset(s, ClampConfig(c))

(***************************************************************************)
(* SimulatorImpl helpers.                                                  *)
(***************************************************************************)
RECURSIVE IncomingFrom(_, _)
IncomingFrom(pl, pid) ==
    IF pl = <<>> THEN 0
    ELSE (IF Head(pl).productId = pid THEN Head(pl).packages ELSE 0)
         + IncomingFrom(Tail(pl), pid)

\* variant: the deliveries on their way are not counted
IncomingPackagesNone(s, pid) == 0

IncomingPackages(s, pid) == IncomingFrom(s.pipeline, pid)

\* variant: the clamped config is stored and the stock keeps its prices
ClampedAtKeepsPrices(s, pid, pc) ==
    [s EXCEPT !.products[pid + 1] = pc]

ClampedAt(s, pid, pc) ==
    [s EXCEPT !.products[pid + 1] = pc,
              !.inv = RepriceBatches(@, pid, pc)]

RECURSIVE ClampProductsFrom(_, _)
ClampProductsFrom(s, pid) ==
    IF pid >= Len(s.products) THEN s
    ELSE ClampProductsFrom(
           ClampedAt(s, pid, ClampProduct(s.products[pid + 1])), pid + 1)

ClampAllProducts(s) == ClampProductsFrom(s, 0)

\* weight of one candidate, in 1/1000
Weight(s, pid) ==
    IF ~HasDiscountStock(s.inv, pid) THEN 1000
    ELSE Plus(1000, Times(s.products[pid + 1].discountPercent,
                          s.cfg.discountDemandBoost))

Weights(s, remaining) ==
    [i \in 1..Len(remaining) |-> Weight(s, remaining[i])]

\* lines 422-427
RECURSIVE RouletteIdx(_, _, _)
RouletteIdx(w, r, idx) ==
    IF idx > Len(w) THEN idx
    ELSE IF r = NaN \/ w[idx] = NaN THEN RouletteIdx(w, NaN, idx + 1)
    ELSE IF r - w[idx] <= 0 THEN idx
    ELSE RouletteIdx(w, r - w[idx], idx + 1)

\* variant: the picked candidate stays among the remaining ones
RemoveAtKeeps(q, i) == q

RemoveAt(q, i) == SubSeq(q, 1, i - 1) \o SubSeq(q, i + 1, Len(q))

PickedIdx(w, r, n) == Clamp(RouletteIdx(w, r, 1), 1, n)

RECURSIVE PickLoop(_, _, _, _, _, _)
PickAt(s, g, remaining, chosen, pick, count, idx) ==
    PickLoop(s, g, RemoveAt(remaining, idx), Append(chosen, remaining[idx]),
             pick + 1, count)

PickDraw(s, remaining, chosen, pick, count, w, r) ==
    PickAt(s, r.rng, remaining, chosen, pick, count,
           PickedIdx(w, r.v, Len(remaining)))

\* lines 408-419: a sum with a NaN term is NaN
SumWeights(w) == IF \E i \in 1..Len(w) : w[i] = NaN THEN NaN ELSE SumSeq(w)

PickWeighted(s, g, remaining, chosen, pick, count, w) ==
    IF SumWeights(w) # NaN /\ SumWeights(w) <= 0
    THEN [chosen |-> chosen, rng |-> g]
    ELSE PickDraw(s, remaining, chosen, pick, count, w,
                  RandFloat(g, 0, SumWeights(w)))

PickLoop(s, g, remaining, chosen, pick, count) ==
    IF pick >= count THEN [chosen |-> chosen, rng |-> g]
    ELSE PickWeighted(s, g, remaining, chosen, pick, count,
                      Weights(s, remaining))

PickDistinctProductsWeighted(s, g, count) ==
    PickLoop(s, g, [i \in 1..s.cfg.K |-> i - 1], <<>>, 0,
             Min(count, s.cfg.K))

\* variant: the order quantity ignores the free capacity
WantUncapped(pc, cur, incoming) == pc.reorderAmount

\* lines 440-441
Want(pc, cur, incoming) ==
    Min(pc.reorderAmount, Max(0, pc.capacityPackages - (cur + incoming)))

RequestEvent(s, pid, pc, cur, incoming, s2) ==
    [pid |-> pid, cur |-> cur, incoming |-> incoming, pc |-> pc,
     leadMin |-> s.cfg.supplierLeadTimeMin,
     leadMax |-> s.cfg.supplierLeadTimeMax,
     pipeBefore |-> s.pipeline, pipeAfter |-> s2.pipeline]

Requested(s, pid, pc, want, lead) ==
    [s EXCEPT
       !.pipeline = Append(@, [productId |-> pid, packages |-> want,
                               daysUntilArrival |-> lead.v]),
       !.rng = lead.rng,
       !.log = PushLog(@, LogEntry("request", pc.name, want, lead.v))]

RequestIf(s, pid, pc, cur, incoming) ==
    IF cur + incoming < pc.reorderThreshold /\ Want(pc, cur, incoming) > 0
    THEN Requested(s, pid, pc, Want(pc, cur, incoming),
                   RandInt(s.rng, s.cfg.supplierLeadTimeMin,
                           s.cfg.supplierLeadTimeMax))
    ELSE s

Observed(s, pid, pc, cur, incoming, s2) ==
    [s2 EXCEPT !.ev.req =
        Append(@, RequestEvent(s, pid, pc, cur, incoming, s2))]

RequestFor(s, pid, pc, cur, incoming) ==
    Observed(s, pid, pc, cur, incoming, RequestIf(s, pid, pc, cur, incoming))

CreateSupplierRequestIfNeeded(s, pid) ==
    RequestFor(s, pid, s.products[pid + 1], TotalPackages(s.inv, pid),
               IncomingPackages(s, pid))

(***************************************************************************)
(* SimulatorImpl::BuildDailyAnimations; times in 1/1000 of a day.          *)
(***************************************************************************)
OrderAnim(o, j0, j1) ==
    [type |-> "OrderPaper", t0 |-> 100 + j0.v, t1 |-> 420 + j1.v,
     shopId |-> o.shopId, payload |-> Len(o.lines)]

RECURSIVE OrderAnims(_, _, _)
OrderAnimsNext(orders, acc, j0, j1) ==
    OrderAnims(Tail(orders), j1.rng, Append(acc, OrderAnim(Head(orders), j0, j1)))

OrderAnimsDraw(orders, acc, j0) ==
    OrderAnimsNext(orders, acc, j0, RandFloat(j0.rng, 0, 60))

OrderAnims(orders, g, acc) ==
    IF orders = <<>> THEN [anims |-> acc, rng |-> g]
    ELSE OrderAnimsDraw(orders, acc, RandFloat(g, 0, 80))

RECURSIVE SumItems(_)
SumItems(items) ==
    IF items = <<>> THEN 0 ELSE Head(items)[2] + SumItems(Tail(items))

SupplyAnims(supplierArrivals) ==
    [i \in 1..Len(supplierArrivals) |->
        [type |-> "SupplyTruck", t0 |-> 20, t1 |-> 220,
         shopId |-> 0 - 1, payload |-> supplierArrivals[i][2]]]

WasteAnims(writeOffByProduct) ==
    IF SumItems(writeOffByProduct) > 0
    THEN <<[type |-> "WasteTruck", t0 |-> 300, t1 |-> 550,
            shopId |-> 0 - 1, payload |-> SumItems(writeOffByProduct)]>>
    ELSE <<>>

ShipmentAnims(shipmentsDueToday, per) ==
    [i \in 1..Len(shipmentsDueToday) |->
        [type |-> "ShipmentTruck",
         t0 |-> 580 + per * (i - 1) + 10,
         t1 |-> 580 + per * (i - 1) + 10 + Min(200, (per * 90) \div 100),
         shopId |-> shipmentsDueToday[i].shopId,
         payload |-> SumItems(shipmentsDueToday[i].items)]]

Animated(s, oa, shipmentsDueToday, writeOffByProduct) ==
    [s EXCEPT
       !.dailyAnims =
           oa.anims \o WasteAnims(writeOffByProduct)
           \o ShipmentAnims(shipmentsDueToday,
                            400 \div Max(1, Len(shipmentsDueToday))),
       !.rng = oa.rng]

BuildDailyAnimations(s, supplierArrivals, orders, shipmentsDueToday, writeOffByProduct) ==
    Animated(s, OrderAnims(orders, s.rng, SupplyAnims(supplierArrivals)),
             shipmentsDueToday, writeOffByProduct)

(***************************************************************************)
(* SimulatorImpl::AdvanceDay, step by step.                                *)
(***************************************************************************)
\* setprecision(2) on an amount held in 1/100 cent: rounds to cents
FmtMoney(v) == IF v = NaN THEN NaN ELSE (v + 50) \div 100

\* variant: the day counter is left alone
BeginDayNoIncrement(s) ==
    [s EXCEPT
       !.todaysOrders = <<>>,
       !.todaysStats = ZeroStats,
       !.log = PushLog(PushLog(@, LogEntry("separator", 0, 0, 0)),
                       LogEntry("daystart", s.day + 1, 0, 0)),
       !.ev.effective = TRUE,
       !.ev.pipeBefore = s.pipeline]

\* lines 519-524
BeginDay(s) ==
    [s EXCEPT
       !.day = @ + 1,
       !.todaysOrders = <<>>,
       !.todaysStats = ZeroStats,
       !.log = PushLog(PushLog(@, LogEntry("separator", 0, 0, 0)),
                       LogEntry("daystart", s.day + 1, 0, 0)),
       !.ev.effective = TRUE,
       !.ev.pipeBefore = s.pipeline]

\* lines 526-537: count down the pipeline, split arrived / still pending
AgePipeline(pl) ==
    [i \in 1..Len(pl) |-> [pl[i] EXCEPT !.daysUntilArrival = @ - 1]]

Arrived(pl) == SelectSeq(pl, LAMBDA d : d.daysUntilArrival <= 0)
StillPending(pl) == SelectSeq(pl, LAMBDA d : ~(d.daysUntilArrival <= 0))

ArrivalPairs(q) == [i \in 1..Len(q) |-> <<q[i].productId, q[i].packages>>]

\* variant: arrived deliveries stay in the pending set
SplitPipelineKeepsArrived(s) ==
    [s EXCEPT
       !.pipeline = AgePipeline(@),
       !.ev.arrivals = ArrivalPairs(Arrived(AgePipeline(s.pipeline)))]

\* variant: the due test is made before the countdown
SplitPipelineBeforeAgeing(s) ==
    [s EXCEPT
       !.pipeline = AgePipeline(StillPending(@)),
       !.ev.arrivals = ArrivalPairs(Arrived(s.pipeline))]

SplitPipeline(s) ==
    [s EXCEPT
       !.pipeline = StillPending(AgePipeline(@)),
       !.ev.arrivals = ArrivalPairs(Arrived(AgePipeline(s.pipeline)))]

\* variant: the free capacity is not looked at
AcceptedUncapped(pk, freeCap) == Max(0, pk)

\* line 542
Accepted(pk, freeCap) == Max(0, Min(pk, freeCap))

ArrivalEvent(s, pid, pk, pc, accepted, w2) ==
    [pid |-> pid, pk |-> pk, cur |-> TotalPackages(s.inv, pid),
     cap |-> pc.capacityPackages, accepted |-> accepted,
     total |-> TotalPackages(w2, pid), shelf |-> pc.shelfLifeDays,
     qBefore |-> s.inv[pid + 1], qAfter |-> w2[pid + 1]]

ArrivalLog(lg, pc, pk, accepted) ==
    IF accepted > 0 /\ accepted < pk
    THEN PushLog(PushLog(lg, LogEntry("supply", pc.name, accepted, 0)),
                 LogEntry("overflow", pc.name, pk - accepted, 0))
    ELSE IF accepted > 0
    THEN PushLog(lg, LogEntry("supply", pc.name, accepted, 0))
    ELSE IF accepted < pk
    THEN PushLog(lg, LogEntry("overflow", pc.name, pk - accepted, 0))
    ELSE lg

Arrival(s, pid, pk, pc, accepted, w2) ==
    [s EXCEPT
       !.inv = w2,
       !.log = ArrivalLog(@, pc, pk, accepted),
       !.ev.arr = Append(@, ArrivalEvent(s, pid, pk, pc, accepted, w2)),
       !.ev.recv = IF accepted > 0
                   THEN Append(@, ReceiveEvent(pid, accepted, w2, pc))
                   ELSE @]

AcceptArrival(s, pid, pk, pc, accepted) ==
    Arrival(s, pid, pk, pc, accepted,
            IF accepted > 0 THEN Receive(s.inv, pid, accepted, pc)
            ELSE s.inv)

ReceiveArrival(s, pid, pk) ==
    AcceptArrival(s, pid, pk, s.products[pid + 1],
                  Accepted(pk, s.products[pid + 1].capacityPackages
                               - TotalPackages(s.inv, pid)))

\* lines 539-551
RECURSIVE ReceiveFrom(_, _)
ReceiveFrom(s, arrivals) ==
    IF arrivals = <<>> THEN s
    ELSE ReceiveFrom(ReceiveArrival(s, Head(arrivals)[1], Head(arrivals)[2]),
                     Tail(arrivals))

ReceiveArrivals(s) == ReceiveFrom(s, s.ev.arrivals)

\* line 553
DecrementAll(s) == [s EXCEPT !.inv = DecrementShelfLife(@)]

WriteOffEvent(s, pid, pc, r) ==
    [pid |-> pid, pk |-> r.pk, unitsPerPackage |-> pc.unitsPerPackage,
     basePrice |-> BasePrice(pc),
     qBefore |-> s.inv[pid + 1], qAfter |-> r.inv[pid + 1]]

WroteOff(s, pid, pc, r) ==
    [s EXCEPT
       !.inv = r.inv,
       !.todaysStats = r.st,
       !.log = IF r.pk > 0
               THEN PushLog(@, LogEntry("writeoff", pc.name, r.pk, 0))
               ELSE @,
       !.ev.wo = Append(@, WriteOffEvent(s, pid, pc, r))]

WriteOffProduct(s, pid, pc) ==
    WroteOff(s, pid, pc, WriteOffExpired(s.inv, pid, pc, s.todaysStats))

\* lines 555-562
RECURSIVE WriteOffFrom(_, _)
WriteOffFrom(s, pid) ==
    IF pid >= s.cfg.K THEN s
    ELSE WriteOffFrom(WriteOffProduct(s, pid, s.products[pid + 1]), pid + 1)

WriteOffAll(s) == WriteOffFrom(s, 0)

WriteOffByProduct(wo) ==
    [i \in 1..Len(wo) |-> <<wo[i].pid, wo[i].pk>>]

DiscountEvent(s, pid, pc, r) ==
    [pid |-> pid, pc |-> pc, affected |-> r.aff,
     qBefore |-> s.inv[pid + 1], qAfter |-> r.inv[pid + 1]]

Discounted(s, pid, pc, r) ==
    [s EXCEPT
       !.inv = r.inv,
       !.log = IF r.aff > 0
               THEN PushLog(@, LogEntry("discount", pc.name,
                                        pc.discountPercent, r.aff))
               ELSE @,
       !.ev.disc = Append(@, DiscountEvent(s, pid, pc, r))]

DiscountProduct(s, pid, pc) ==
    Discounted(s, pid, pc, ApplyDiscountIfNeeded(s.inv, pid, pc))

\* lines 564-570
RECURSIVE DiscountFrom(_, _)
DiscountFrom(s, pid) ==
    IF pid >= s.cfg.K THEN s
    ELSE DiscountFrom(DiscountProduct(s, pid, s.products[pid + 1]), pid + 1)

DiscountAll(s) == DiscountFrom(s, 0)

\* variant: the packages of a due shipment are taken off the books again
LookupDueBooks(s) ==
    [s EXCEPT !.ev.due = IF s.day \in DOMAIN s.shipmentsByDay
                         THEN s.shipmentsByDay[s.day] ELSE <<>>,
              !.todaysStats.totalSoldUnits =
                  @ + (IF s.day \in DOMAIN s.shipmentsByDay
                       THEN Len(s.shipmentsByDay[s.day]) ELSE 0)]

\* lines 572-574
LookupDue(s) ==
    [s EXCEPT !.ev.due = IF s.day \in DOMAIN s.shipmentsByDay
                         THEN s.shipmentsByDay[s.day] ELSE <<>>]

NewLine(pid, units) ==
    [productId |-> pid, requestedUnits |-> units, chosenPackages |-> 0,
     deliveredPackages |-> 0, deliveredUnits |-> 0]

\* lines 587-592
RECURSIVE MakeLines(_, _, _, _)
MakeLine(s, picked, acc, u) ==
    MakeLines(s, u.rng, Tail(picked), Append(acc, NewLine(Head(picked), u.v)))

MakeLines(s, g, picked, acc) ==
    IF picked = <<>> THEN [lines |-> acc, rng |-> g]
    ELSE MakeLine(s, picked, acc,
                  RandInt(g, s.cfg.minUnitsPerLine, s.cfg.maxUnitsPerLine))

Ordered(s, shop, ml) ==
    [s EXCEPT
       !.rng = ml.rng,
       !.todaysOrders =
           Append(@, [day |-> s.day, shopId |-> shop, lines |-> ml.lines])]

OrderOf(s, shop, picked) ==
    Ordered(s, shop, MakeLines(s, picked.rng, picked.chosen, <<>>))

OrderWith(s, shop, n) ==
    OrderOf(s, shop, PickDistinctProductsWeighted(s, n.rng, n.v))

ShopOrders(s, shop, b) ==
    IF ~b.v THEN [s EXCEPT !.rng = b.rng]
    ELSE OrderWith(s, shop,
                   RandInt(b.rng, 1,
                           Max(1, Min(s.cfg.maxLinesPerOrder, s.cfg.K))))

\* lines 576-594
RECURSIVE OrdersFrom(_, _)
OrdersFrom(s, shop) ==
    IF shop >= s.cfg.M THEN s
    ELSE OrdersFrom(
           ShopOrders(s, shop, RandBernoulli(s.rng, s.cfg.orderProbability)),
           shop + 1)

GenerateOrders(s) == OrdersFrom(s, 0)

\* lines 602-606: the lines of one order
RECURSIVE FulfillLines(_, _, _, _)
Fulfilled(s, lines, done, items, r) ==
    FulfillLines(
      [s EXCEPT !.inv = r.inv, !.rng = r.rng, !.todaysStats = r.st,
                !.ev.ful = @ \o r.obs],
      Tail(lines),
      Append(done, r.line),
      IF r.line.deliveredPackages > 0
      THEN Append(items, <<r.line.productId, r.line.deliveredPackages>>)
      ELSE items)

FulfillLines(s, lines, done, items) ==
    IF lines = <<>> THEN [s |-> s, lines |-> done, items |-> items]
    ELSE Fulfilled(s, lines, done, items,
                   FulfillLine(s.inv, Head(lines),
                               s.products[Head(lines).productId + 1],
                               s.rng, s.todaysStats))

\* lines 596-609
RECURSIVE FulfillFrom(_, _, _)
OrderDone(s, i, shipmentsTomorrow, r) ==
    FulfillFrom(
      [r.s EXCEPT !.todaysOrders[i].lines = r.lines],
      i + 1,
      IF r.items # <<>>
      THEN Append(shipmentsTomorrow,
                  [day |-> s.day + 1, shopId |-> s.todaysOrders[i].shopId,
                   items |-> r.items])
      ELSE shipmentsTomorrow)

FulfillFrom(s, i, shipmentsTomorrow) ==
    IF i > Len(s.todaysOrders) THEN [s |-> s, ships |-> shipmentsTomorrow]
    ELSE OrderDone(s, i, shipmentsTomorrow,
                   FulfillLines(s, s.todaysOrders[i].lines, <<>>, <<>>))

\* lines 611-617
MapAppend(m, k, q) ==
    [d \in (DOMAIN m) \cup {k} |->
        IF d = k THEN (IF k \in DOMAIN m THEN m[k] ELSE <<>>) \o q
        ELSE m[d]]

\* variant: the shipments are filed under the order day
StoreShipmentsToday(s, shipmentsTomorrow) ==
    IF shipmentsTomorrow # <<>>
    THEN [s EXCEPT
            !.shipmentsByDay = MapAppend(@, s.day, shipmentsTomorrow),
            !.log = PushLog(@, LogEntry("shipments",
                                        Len(shipmentsTomorrow), 0, 0))]
    ELSE [s EXCEPT !.log = PushLog(@, LogEntry("noshipments", 0, 0, 0))]

StoreShipments(s, shipmentsTomorrow) ==
    IF shipmentsTomorrow # <<>>
    THEN [s EXCEPT
            !.shipmentsByDay = MapAppend(@, s.day + 1, shipmentsTomorrow),
            !.log = PushLog(@, LogEntry("shipments",
                                        Len(shipmentsTomorrow), 0, 0))]
    ELSE [s EXCEPT !.log = PushLog(@, LogEntry("noshipments", 0, 0, 0))]

Shipped(f) == StoreShipments(f.s, f.ships)

FulfillOrders(s) == Shipped(FulfillFrom(s, 1, <<>>))

\* line 619
RECURSIVE RequestFrom(_, _)
RequestFrom(s, pid) ==
    IF pid >= s.cfg.K THEN s
    ELSE RequestFrom(CreateSupplierRequestIfNeeded(s, pid), pid + 1)

RequestAll(s) == RequestFrom(s, 0)

\* variant: the written-off units are not carried into the total
FoldStatsNoWriteOffUnits(total, today) ==
    [revenue |-> Plus(total.revenue, today.revenue),
     discountLoss |-> Plus(total.discountLoss, today.discountLoss),
     writeOffLoss |-> total.writeOffLoss + today.writeOffLoss,
     totalSoldUnits |-> total.totalSoldUnits + today.totalSoldUnits,
     totalWriteOffUnits |-> total.totalWriteOffUnits]

\* lines 621-625
FoldStats(total, today) ==
    [revenue |-> Plus(total.revenue, today.revenue),
     discountLoss |-> Plus(total.discountLoss, today.discountLoss),
     writeOffLoss |-> total.writeOffLoss + today.writeOffLoss,
     totalSoldUnits |-> total.totalSoldUnits + today.totalSoldUnits,
     totalWriteOffUnits |->
        total.totalWriteOffUnits + today.totalWriteOffUnits]

FoldTotals(s) == [s EXCEPT !.totalStats = FoldStats(@, s.todaysStats)]

\* lines 627-629
LogSummary(s) ==
    [s EXCEPT !.log = PushLog(@,
        [k |-> "summary", a |-> s.day,
         b |-> FmtMoney(s.todaysStats.revenue),
         c |-> FmtMoney(s.todaysStats.discountLoss),
         d |-> FmtMoney(s.todaysStats.writeOffLoss)])]

\* line 631
Animate(s) ==
    BuildDailyAnimations([s EXCEPT !.ev.rngBeforeAnims = s.rng],
                         s.ev.arrivals, s.todaysOrders, s.ev.due,
                         WriteOffByProduct(
                             SelectSeq(s.ev.wo, LAMBDA e : e.pk > 0)))

EffectiveDay(s) ==
    Animate(LogSummary(FoldTotals(RequestAll(FulfillOrders(GenerateOrders(
      LookupDue(DiscountAll(WriteOffAll(DecrementAll(ReceiveArrivals(
        SplitPipeline(BeginDay(ClampAllProducts(s))))))))))))))

\* variant: the terminal test lets day N through
AdvanceDayPastEnd(s) ==
    IF s.day > s.cfg.N THEN [s EXCEPT !.ev = NoEvents]
    ELSE EffectiveDay([s EXCEPT !.ev = NoEvents])

AdvanceDay(s) ==
    IF s.day >= s.cfg.N THEN [s EXCEPT !.ev = NoEvents]
    ELSE EffectiveDay([s EXCEPT !.ev = NoEvents])

(***************************************************************************)
(* The other mutating entry points of the API.                             *)
(***************************************************************************)
SetRuntimeTuning(s, t) ==
    [s EXCEPT !.cfg = ClampConfig(
        [@ EXCEPT !.orderProbability = t.orderProbability,
                  !.maxLinesPerOrder = t.maxLinesPerOrder,
                  !.minUnitsPerLine = t.minUnitsPerLine,
                  !.maxUnitsPerLine = t.maxUnitsPerLine,
                  !.discountDemandBoost = t.discountDemandBoost,
                  !.secondsPerDay = t.secondsPerDay]),
              !.ev = NoEvents]

\* variant: the length of the list is not tested
SetProductConfigsAnyLength(s, in) ==
    ClampAllProducts([s EXCEPT !.products = in, !.ev = NoEvents])

SetProductConfigs(s, in) ==
    IF Len(in) # s.cfg.K THEN [s EXCEPT !.ev = NoEvents]
    ELSE ClampAllProducts([s EXCEPT !.products = in, !.ev = NoEvents])

(***************************************************************************)
(* Inputs of the API calls.                                                *)
(***************************************************************************)
Seeds == 1..MaxSeed

\* out-of-range values everywhere: ClampConfig has to repair all of them
WildConfig ==
    [N |-> 0, M |-> 0, K |-> 0, seed |-> 7,
     orderProbability |-> 150, maxLinesPerOrder |-> 0,
     minUnitsPerLine |-> 0 - 5, maxUnitsPerLine |-> 0 - 7,
     discountDemandBoost |-> 0 - 30,
     supplierLeadTimeMin |-> 0, supplierLeadTimeMax |-> 0 - 1,
     secondsPerDay |-> 0]

\* order lines of a thousand million units each
BulkConfig ==
    [DefaultConfig EXCEPT !.seed = 1, !.N = 10, !.M = 3,
                          !.minUnitsPerLine = 1000000000,
                          !.maxUnitsPerLine = 1000000000]

InResetConfigs ==
    {[DefaultConfig EXCEPT !.seed = 1, !.N = 10, !.M = 3], WildConfig}

InConfigs ==
    {[DefaultConfig EXCEPT !.seed = sd, !.N = 10, !.M = 3] : sd \in Seeds}
    \cup {[DefaultConfig EXCEPT !.seed = sd, !.N = 10, !.M = 3,
                                !.orderProbability = 30,
                                !.maxLinesPerOrder = 2,
                                !.supplierLeadTimeMax = 2] : sd \in Seeds}
    \cup {WildConfig, BulkConfig}

\* in range, out of range, not a number, and a NaN demand boost alone
InTunings ==
    {[orderProbability |-> 0, maxLinesPerOrder |-> 6, minUnitsPerLine |-> 5,
      maxUnitsPerLine |-> 120, discountDemandBoost |-> 20,
      secondsPerDay |-> 600],
     [orderProbability |-> 250, maxLinesPerOrder |-> 25,
      minUnitsPerLine |-> 0 - 3, maxUnitsPerLine |-> 0,
      discountDemandBoost |-> 500, secondsPerDay |-> 1],
     [orderProbability |-> NaN, maxLinesPerOrder |-> 25,
      minUnitsPerLine |-> 0 - 3, maxUnitsPerLine |-> 0,
      discountDemandBoost |-> NaN, secondsPerDay |-> NaN],
     [orderProbability |-> 85, maxLinesPerOrder |-> 3, minUnitsPerLine |-> 5,
      maxUnitsPerLine |-> 60, discountDemandBoost |-> NaN,
      secondsPerDay |-> 600]}

\* the lists an editor can hand to SetProductConfigs, made from the list
\* GetProductConfigs returned; one call edits every row of the table
EditKinds == {"first", "second", "wrongLen", "nan"}

EditOne(pc, pid, kind) ==
    CASE kind = "first" /\ pid % 4 = 0 -> [pc EXCEPT !.shelfLifeDays = 1]
      [] kind = "first" /\ pid % 4 = 1 -> [pc EXCEPT !.capacityPackages = 3]
      [] kind = "first" /\ pid % 4 = 2 ->
           [pc EXCEPT !.discountBeforeDays = 99, !.discountPercent = 50]
      [] kind = "first" /\ pid % 4 = 3 ->
           [pc EXCEPT !.unitsPerPackage = 0, !.capacityPackages = 6000,
                      !.shelfLifeDays = 0, !.discountBeforeDays = 99,
                      !.basePricePerUnit = 0, !.discountPercent = 200,
                      !.reorderThreshold = 9999, !.reorderAmount = 0 - 4]
      [] kind = "second" /\ pid % 4 = 0 -> DefaultProduct
      [] kind = "second" /\ pid % 4 = 1 ->
           [pc EXCEPT !.basePricePerUnit = 2 * @, !.capacityPackages = 0]
      [] kind = "second" /\ pid % 4 = 2 ->
           [pc EXCEPT !.discountBeforeDays = 0, !.discountPercent = 0]
      \* a discountPercent that is not a number, with the discount window
      \* closed: no price is ever computed from it
      [] kind = "nan" /\ pid % 4 = 1 ->
           [pc EXCEPT !.discountBeforeDays = 0, !.discountPercent = NaN]
      \* the same with the discount window wide open
      [] kind = "nanOpen" /\ pid % 4 = 1 ->
           [pc EXCEPT !.discountBeforeDays = 99, !.discountPercent = NaN]
      \* every product short-lived, cheap and reordered up to its capacity
      \* daily
      [] kind = "churn" ->
           [pc EXCEPT !.shelfLifeDays = 1, !.basePricePerUnit = 0,
                      !.reorderThreshold = 9999, !.reorderAmount = 9999]
      [] OTHER -> pc

EditedList(ps, kind) ==
    IF kind = "wrongLen" THEN SubSeq(ps, 1, Len(ps) - 1)
    ELSE [i \in 1..Len(ps) |-> EditOne(ps[i], i - 1, kind)]

(***************************************************************************)
(* The state machine: one action per API entry point.                      *)
(***************************************************************************)
Self ==
    [cfg |-> cfg, rng |-> rng, day |-> day, inv |-> inv,
     products |-> products, shopNames |-> shopNames, pipeline |-> pipeline,
     shipmentsByDay |-> shipmentsByDay, todaysOrders |-> todaysOrders,
     todaysStats |-> todaysStats, totalStats |-> totalStats, log |-> log,
     dailyAnims |-> dailyAnims, ev |-> ev]

Commit(r) ==
    /\ cfg' = r.cfg
    /\ rng' = r.rng
    /\ day' = r.day
    /\ inv' = r.inv
    /\ products' = r.products
    /\ shopNames' = r.shopNames
    /\ pipeline' = r.pipeline
    /\ shipmentsByDay' = r.shipmentsByDay
    /\ todaysOrders' = r.todaysOrders
    /\ todaysStats' = r.todaysStats
    /\ totalStats' = r.totalStats
    /\ log' = r.log
    /\ dailyAnims' = r.dailyAnims
    /\ ev' = r.ev

Created(r) ==
    /\ cfg = r.cfg
    /\ rng = r.rng
    /\ day = r.day
    /\ inv = r.inv
    /\ products = r.products
    /\ shopNames = r.shopNames
    /\ pipeline = r.pipeline
    /\ shipmentsByDay = r.shipmentsByDay
    /\ todaysOrders = r.todaysOrders
    /\ todaysStats = r.todaysStats
    /\ totalStats = r.totalStats
    /\ log = r.log
    /\ dailyAnims = r.dailyAnims
    /\ ev = r.ev

\* a second engine, not yet created
NoTwin == <<>>

(***************************************************************************)
(* History of the supplier requests: for every request placed since the    *)
(* last create/reset the day it was placed on and the lead time drawn for  *)
(* it; pending holds those whose day + lead is still ahead, arrived those  *)
(* whose day + lead is the day just started.                               *)
(***************************************************************************)
NonePlaced == [pending |-> <<>>, arrived |-> <<>>]

\* the state of a front end, for the specifications that have none
NoUi == <<>>

\* history of the product configs since the last create/reset: whether
\* SetProductConfigs has changed any of them, and the products whose
\* shelfLifeDays it has changed
NoneEdited == [any |-> FALSE, shelf |-> {}]

Edit(e, before, after) ==
    [any |-> e.any \/ after # before,
     shelf |-> e.shelf \cup
         {p \in 1..Len(before) :
             p > Len(after)
                 \/ after[p].shelfLifeDays # before[p].shelfLifeDays}]

PlacedBy(e, d) ==
    [productId |-> e.pid,
     packages |-> e.pipeAfter[Len(e.pipeAfter)].packages,
     day |-> d,
     lead |-> e.pipeAfter[Len(e.pipeAfter)].daysUntilArrival]

Placing(reqs) ==
    SelectSeq(reqs, LAMBDA e : Len(e.pipeAfter) > Len(e.pipeBefore))

PlacedToday(reqs, d) ==
    [i \in 1..Len(Placing(reqs)) |-> PlacedBy(Placing(reqs)[i], d)]

Track(p, d, reqs) ==
    [pending |-> SelectSeq(p.pending, LAMBDA e : e.day + e.lead # d)
                     \o PlacedToday(reqs, d),
     arrived |-> SelectSeq(p.pending, LAMBDA e : e.day + e.lead = d)]

Creation(c) ==
    /\ Created(CreateSimulator(c))
    /\ lastCall = "CreateSimulator"
    /\ callArg = c
    /\ statsHistory = <<>>
    /\ opDone = FALSE
    /\ placed = NonePlaced
    /\ edited = NoneEdited
    /\ prior = 0
    /\ ui = NoUi

Init ==
    /\ \E c \in InConfigs : Creation(c)
    /\ twin = NoTwin

ResetCall(c) ==
    /\ Commit(ResetSimulator(Self, c))
    /\ lastCall' = "ResetSimulator"
    /\ callArg' = c
    /\ statsHistory' = <<>>
    /\ opDone' = FALSE
    /\ placed' = NonePlaced
    /\ edited' = NoneEdited
    /\ prior' = day
    /\ UNCHANGED ui

AdvanceDayCall ==
    /\ Commit(AdvanceDay(Self))
    /\ lastCall' = "AdvanceDay"
    /\ callArg' = 0
    /\ statsHistory' = IF ev'.effective
                       THEN Append(statsHistory, todaysStats')
                       ELSE statsHistory
    /\ placed' = IF ev'.effective THEN Track(placed, day', ev'.req)
                  ELSE placed
    /\ UNCHANGED <<edited, ui>>
    /\ prior' = 0
    /\ opDone' = FALSE

SetRuntimeTuningCall(t) ==
    /\ day \in OpDays
    /\ ~opDone
    /\ Commit(SetRuntimeTuning(Self, t))
    /\ callArg' = t
    /\ lastCall' = "SetRuntimeTuning"
    /\ opDone' = TRUE
    /\ UNCHANGED <<statsHistory, placed, edited, ui>>
    /\ prior' = 0

SetProductConfigsCall(kind) ==
    /\ day \in OpDays
    /\ ~opDone
    /\ Commit(SetProductConfigs(Self, EditedList(products, kind)))
    /\ callArg' = kind
    /\ lastCall' = "SetProductConfigs"
    /\ opDone' = TRUE
    /\ edited' = Edit(edited, products, products')
    /\ prior' = 0
    /\ UNCHANGED <<statsHistory, placed, ui>>

DoResetSimulator ==
    /\ \E c \in InResetConfigs : ResetCall(c)
    /\ UNCHANGED twin

DoAdvanceDay ==
    /\ AdvanceDayCall
    /\ UNCHANGED twin

DoSetRuntimeTuning ==
    /\ \E t \in InTunings : SetRuntimeTuningCall(t)
    /\ UNCHANGED twin

DoSetProductConfigs ==
    /\ \E kind \in EditKinds : SetProductConfigsCall(kind)
    /\ UNCHANGED twin

Next ==
    \/ DoAdvanceDay
    \/ DoResetSimulator
    \/ DoSetRuntimeTuning
    \/ DoSetProductConfigs

Spec == Init /\ [][Next]_vars

(***************************************************************************)
(* Two engines driven by the same calls.  The first is created with the    *)
(* configuration; the second already has a history under another           *)
(* configuration and is reset to the first one's.  On a later reset of the *)
(* first engine the second is destroyed and created anew.                  *)
(***************************************************************************)
UsedEngine == AdvanceDay(AdvanceDay(CreateSimulator(WildConfig)))

InitTwin ==
    \E c \in InConfigs :
        /\ Creation(c)
        /\ twin = ResetSimulator(UsedEngine, c)

TwinResetSimulator ==
    \E c \in InResetConfigs :
        /\ ResetCall(c)
        /\ twin' = CreateSimulator(c)

TwinAdvanceDay ==
    /\ AdvanceDayCall
    /\ twin' = AdvanceDay(twin)

TwinSetRuntimeTuning ==
    \E t \in InTunings :
        /\ SetRuntimeTuningCall(t)
        /\ twin' = SetRuntimeTuning(twin, t)

TwinSetProductConfigs ==
    \E kind \in EditKinds :
        /\ SetProductConfigsCall(kind)
        /\ twin' = SetProductConfigs(twin, EditedList(twin.products, kind))

NextTwin ==
    \/ TwinAdvanceDay
    \/ TwinResetSimulator
    \/ TwinSetRuntimeTuning
    \/ TwinSetProductConfigs

SpecTwin == InitTwin /\ [][NextTwin]_vars

(***************************************************************************)
(* Long runs that fill the log: thirty days, suppliers that deliver the    *)
(* next day, and an edit after which every product is written off and      *)
(* reordered daily.                                                        *)
(***************************************************************************)
LogSeeds == 1..4

LogConfigs ==
    {[DefaultConfig EXCEPT !.seed = sd, !.N = 30, !.M = 3,
                           !.supplierLeadTimeMax = 1] : sd \in LogSeeds}

InitLog ==
    /\ \E c \in LogConfigs : Creation(c)
    /\ twin = NoTwin

LogSetProductConfigs ==
    /\ SetProductConfigsCall("churn")
    /\ UNCHANGED twin

NextLog ==
    \/ DoAdvanceDay
    \/ LogSetProductConfigs

SpecLog == InitLog /\ [][NextLog]_vars

(***************************************************************************)
(* Runs in which SetProductConfigs hands in a discountPercent that is not  *)
(* a number for products whose batches are then discounted.                *)
(***************************************************************************)
NaNSetProductConfigs ==
    /\ SetProductConfigsCall("nanOpen")
    /\ UNCHANGED twin

NextNaN ==
    \/ DoAdvanceDay
    \/ NaNSetProductConfigs

SpecNaN == Init /\ [][NextNaN]_vars

\* lines 717-733: one row per line of today's orders
OrderRow(o, ln) ==
    [shopId |-> o.shopId, productId |-> ln.productId,
     requestedUnits |-> ln.requestedUnits,
     chosenPackages |-> ln.chosenPackages,
     deliveredPackages |-> ln.deliveredPackages,
     deliveredUnits |-> ln.deliveredUnits]

RowsOf(o) == [i \in 1..Len(o.lines) |-> OrderRow(o, o.lines[i])]

RECURSIVE RowsFrom(_)
RowsFrom(orders) ==
    IF orders = <<>> THEN <<>>
    ELSE RowsOf(Head(orders)) \o RowsFrom(Tail(orders))

GetTodaysOrderRows(s) == RowsFrom(s.todaysOrders)

\* lines 735-741
GetLog(s, maxLines) ==
    SubSeq(s.log,
           IF Len(s.log) > Max(1, maxLines)
           THEN Len(s.log) - Max(1, maxLines) + 1 ELSE 1,
           Len(s.log))

(***************************************************************************)
(* The API as its callers see it: every function takes a handle, which is  *)
(* null or owns one engine, and tests it before anything else.  A handle   *)
(* is a sequence holding at most one engine.                               *)
(***************************************************************************)
Null == <<>>

ApiFunctions ==
    {"DestroySimulator", "ResetSimulator", "AdvanceDay", "GetDay",
     "GetConfigCopy", "SetRuntimeTuning", "GetTodaysStats", "GetTotalStats",
     "GetShopNames", "GetProductConfigs", "SetProductConfigs",
     "GetStockPackages", "HasDiscountStock", "GetTodaysOrderRows",
     "GetLog", "GetDailyAnims"}

\* lines 649-747: the handle after the call and the value returned (or
\* left in the out parameter); "void" where the function returns nothing
ApiCall(h, fn, arg) ==
    LET Same(ret) == [h |-> h, ret |-> ret]
        Does(s2) == [h |-> <<s2>>, ret |-> "void"]
    IN CASE fn = "DestroySimulator" -> [h |-> Null, ret |-> "void"]
         [] fn = "ResetSimulator" ->
              IF h = Null THEN Same("void")
              ELSE Does(ResetSimulator(h[1], arg))
         [] fn = "AdvanceDay" ->
              IF h = Null THEN Same("void") ELSE Does(AdvanceDay(h[1]))
         [] fn = "GetDay" -> Same(IF h # Null THEN h[1].day ELSE 0)
         [] fn = "GetConfigCopy" ->
              Same(IF h # Null THEN h[1].cfg ELSE DefaultConfig)
         [] fn = "SetRuntimeTuning" ->
              IF h = Null THEN Same("void")
              ELSE Does(SetRuntimeTuning(h[1], arg))
         [] fn = "GetTodaysStats" ->
              Same(IF h # Null THEN h[1].todaysStats ELSE ZeroStats)
         [] fn = "GetTotalStats" ->
              Same(IF h # Null THEN h[1].totalStats ELSE ZeroStats)
         [] fn = "GetShopNames" ->
              Same(IF h = Null THEN <<>> ELSE h[1].shopNames)
         [] fn = "GetProductConfigs" ->
              Same(IF h = Null THEN <<>> ELSE h[1].products)
         [] fn = "SetProductConfigs" ->
              IF h = Null THEN Same("void")
              ELSE Does(SetProductConfigs(h[1], arg))
         [] fn = "GetStockPackages" ->
              Same(IF h = Null THEN 0 ELSE TotalPackages(h[1].inv, arg))
         [] fn = "HasDiscountStock" ->
              Same(IF h = Null THEN FALSE
                   ELSE HasDiscountStock(h[1].inv, arg))
         [] fn = "GetTodaysOrderRows" ->
              Same(IF h = Null THEN <<>> ELSE GetTodaysOrderRows(h[1]))
         [] fn = "GetLog" ->
              Same(IF h = Null THEN <<>> ELSE GetLog(h[1], arg))
         [] fn = "GetDailyAnims" ->
              Same(IF h = Null THEN <<>> ELSE h[1].dailyAnims)

\* an argument for each function: a config, a tuning, a product list, a
\* product index in and out of range, a number of lines
ApiArgs(fn) ==
    CASE fn = "ResetSimulator" -> {DefaultConfig, WildConfig}
      [] fn = "SetRuntimeTuning" -> InTunings
      [] fn = "SetProductConfigs" -> {products}
      [] fn \in {"GetStockPackages", "HasDiscountStock"} ->
           {0 - 5, 0 - 1, 0, 3, cfg.K - 1, cfg.K, cfg.K + 3}
      [] fn = "GetLog" -> {0, 5}
      [] OTHER -> {0}

\* a call on a null handle: the caller holds no engine
NullHandleCall ==
    \E fn \in ApiFunctions : \E arg \in ApiArgs(fn) :
        LET r == ApiCall(Null, fn, arg)
        IN /\ lastCall' = "NullHandle"
           /\ callArg' = [fn |-> fn, arg |-> arg, h |-> r.h, ret |-> r.ret]
           /\ UNCHANGED <<progVars, ev, statsHistory, opDone, twin, placed,
                          edited, prior, ui>>

\* the two stock accessors called on the engine
AccessorCall ==
    \E fn \in {"GetStockPackages", "HasDiscountStock"} :
        \E arg \in ApiArgs(fn) :
            LET r == ApiCall(<<Self>>, fn, arg)
            IN /\ Commit(r.h[1])
               /\ lastCall' = "Accessor"
               /\ callArg' = [fn |-> fn, arg |-> arg, h |-> "engine",
                              ret |-> r.ret]
               /\ UNCHANGED <<statsHistory, opDone, twin, placed, edited,
                              prior, ui>>

NextApi ==
    \/ DoAdvanceDay
    \/ NullHandleCall
    \/ AccessorCall

SpecApi == Init /\ [][NextApi]_vars

(***************************************************************************)
(* The frame loop of src/frontend.cpp (lines 430-586): one action per      *)
(* frame.  The locals of main() that outlive a frame are ui.running and    *)
(* pendingCfg; liveCfg, day and the product list are read anew in every    *)
(* frame.  The inputs of a frame are whether the day timer has run out     *)
(* and the one widget the user has worked in it.  ui also keeps, of the    *)
(* last frame, the config a Reset click passed to ResetSimulator.          *)
(***************************************************************************)
MaxFrames == 3

OtherSeed == 54321

Widgets ==
    {"none", "start", "step", "reset", "tune", "seed", "K", "product"}

FrameInputs == [tick : BOOLEAN, widget : Widgets]

\* lines 420-427
InitCfg == [DefaultConfig EXCEPT !.N = 20, !.M = 5, !.K = 12, !.seed = 12345]

GetConfigCopy(s) == s.cfg

InitFrame ==
    /\ Created(CreateSimulator(InitCfg))
    /\ lastCall = "CreateSimulator"
    /\ callArg = InitCfg
    /\ statsHistory = <<>>
    /\ opDone = FALSE
    /\ placed = NonePlaced
    /\ edited = NoneEdited
    /\ prior = 0
    /\ twin = NoTwin
    /\ ui = [running |-> FALSE,
             pendingCfg |-> GetConfigCopy(CreateSimulator(InitCfg)),
             frames |-> 0, reset |-> Null]

\* lines 441-442
FrameBegin(s, u) ==
    [s |-> s, running |-> u.running, pendingCfg |-> u.pendingCfg,
     liveCfg |-> GetConfigCopy(s), day |-> s.day, products |-> <<>>,
     reset |-> Null]

Advanced(f, s2) ==
    [f EXCEPT !.s = s2, !.day = s2.day,
              !.running = IF s2.day >= f.liveCfg.N THEN FALSE ELSE @]

\* lines 444-453
FrameTimer(f, tick) ==
    IF f.running /\ f.day < f.liveCfg.N /\ tick
    THEN Advanced(f, AdvanceDay(f.s))
    ELSE f

\* lines 466-467
FrameRead(f) == [f EXCEPT !.products = f.s.products]

\* lines 482-500
FrameButtons(f, widget) ==
    CASE widget = "start" ->
           [f EXCEPT !.s = IF f.day = 0 /\ ~f.running
                           THEN AdvanceDay(@) ELSE @,
                     !.running = ~@]
      [] widget = "step" ->
           [f EXCEPT !.running = FALSE,
                     !.s = IF @.day < f.liveCfg.N THEN AdvanceDay(@) ELSE @]
      [] widget = "reset" ->
           [f EXCEPT !.running = FALSE,
                     !.s = ResetSimulator(@, f.pendingCfg),
                     !.pendingCfg =
                         GetConfigCopy(ResetSimulator(f.s, f.pendingCfg)),
                     !.reset = f.pendingCfg]
      [] OTHER -> f

\* lines 507-524: the order probability slider moved to 0.50
FrameTuning(f, widget) ==
    IF widget = "tune"
    THEN [f EXCEPT !.s = SetRuntimeTuning(@,
            [orderProbability |-> 50,
             maxLinesPerOrder |-> f.liveCfg.maxLinesPerOrder,
             minUnitsPerLine |-> f.liveCfg.minUnitsPerLine,
             maxUnitsPerLine |-> f.liveCfg.maxUnitsPerLine,
             discountDemandBoost |-> f.liveCfg.discountDemandBoost,
             secondsPerDay |-> f.liveCfg.secondsPerDay])]
    ELSE f

\* lines 529-536
FramePending(f, widget) ==
    [f EXCEPT !.pendingCfg =
        [@ EXCEPT !.N = Clamp(@, 10, 30),
                  !.M = Clamp(@, 3, 9),
                  !.K = Clamp(IF widget = "K" THEN @ + 1 ELSE @, 12, 20),
                  !.seed = IF widget = "seed" THEN OtherSeed ELSE @]]

\* lines 556-559
FrameProducts(f, widget) ==
    [f EXCEPT !.s = SetProductConfigs(@,
        EditedList(f.products, IF widget = "product" THEN "first"
                                ELSE "none"))]

FrameEnd(f, in) ==
    FrameProducts(
        FramePending(
            FrameTuning(
                FrameButtons(FrameRead(FrameTimer(f, in.tick)), in.widget),
                in.widget),
            in.widget),
        in.widget)

Shown(u, f) ==
    [running |-> f.running, pendingCfg |-> f.pendingCfg,
     frames |-> u.frames + 1, reset |-> f.reset]

FrameDone(f, in) ==
    /\ Commit(f.s)
    /\ ui' = Shown(ui, f)
    /\ lastCall' = "Frame"
    /\ callArg' = in
    /\ UNCHANGED <<statsHistory, opDone, twin, placed, edited, prior>>

Frame ==
    /\ ui.frames < MaxFrames
    /\ \E in \in FrameInputs :
          FrameDone(FrameEnd(FrameBegin(Self, ui), in), in)

NextFrame == Frame

SpecFrame == InitFrame /\ [][NextFrame]_vars

(***************************************************************************)
(* The UI loop of the standalone simulator, src/main.cpp (lines 945-1070): *)
(* one action per frame.  Its Simulator is the engine of backend.cpp       *)
(* without the clamping of the config and of the products and without the  *)
(* range checks of the ledger; on a config in range, generated products    *)
(* and product ids within the containers the two do the same, so Reset     *)
(* and AdvanceDay are the engine's.  The N, M and K fields write into      *)
(* sim.cfg.  Where a frame indexes a container past its end the behaviour  *)
(* is undefined: a read for display either goes unnoticed or ends the      *)
(* process, and of a day advanced over a ledger that is too short nothing  *)
(* is known, so the run is followed no further.                            *)
(***************************************************************************)
MaxMainFrames == 3

MainWidgets ==
    {"none", "start", "step", "reset", "K+", "K-", "M+", "M-"}

MainInputs == [tick : BOOLEAN, widget : MainWidgets]

\* main.cpp lines 937-942
InitMain ==
    /\ Created(CreateSimulator(InitCfg))
    /\ lastCall = "CreateSimulator"
    /\ callArg = InitCfg
    /\ statsHistory = <<>>
    /\ opDone = FALSE
    /\ placed = NonePlaced
    /\ edited = NoneEdited
    /\ prior = 0
    /\ twin = NoTwin
    /\ ui = [running |-> FALSE, frames |-> 0, ended |-> "no"]

MainBegin(s, u) ==
    [s |-> s, running |-> u.running, undefined |-> FALSE, pastEnd |-> FALSE]

\* Simulator::AdvanceDay of main.cpp: lines 553-568 and 624 index products
\* and the ledger with every pid < cfg.K
MainAdvanceDay(f) ==
    IF f.s.day < f.s.cfg.N
       /\ (f.s.cfg.K > Len(f.s.products) \/ f.s.cfg.K > Len(f.s.inv))
    THEN [f EXCEPT !.undefined = TRUE]
    ELSE [f EXCEPT !.s = AdvanceDay(@)]

\* main.cpp lines 955-963
MainTimer(f, tick) ==
    IF f.running /\ f.s.day < f.s.cfg.N /\ tick
    THEN [MainAdvanceDay(f) EXCEPT
            !.running = IF MainAdvanceDay(f).s.day >= f.s.cfg.N
                        THEN FALSE ELSE @]
    ELSE f

\* main.cpp lines 976-998
MainButtons(f, widget) ==
    CASE widget = "start" ->
           [(IF f.s.day = 0 /\ ~f.running THEN MainAdvanceDay(f) ELSE f)
               EXCEPT !.running = ~@]
      [] widget = "step" ->
           [(IF f.s.day < f.s.cfg.N THEN MainAdvanceDay(f) ELSE f)
               EXCEPT !.running = FALSE]
      [] widget = "reset" ->
           [f EXCEPT !.running = FALSE, !.s = Reset(@, f.s.cfg)]
      [] OTHER -> f

\* main.cpp lines 1008-1015
MainFields(f, widget) ==
    [f EXCEPT !.s.cfg =
        [@ EXCEPT
           !.N = Clamp(@, 10, 30),
           !.M = Clamp(CASE widget = "M+" -> @ + 1
                         [] widget = "M-" -> @ - 1
                         [] OTHER -> @, 3, 9),
           !.K = Clamp(CASE widget = "K+" -> @ + 1
                         [] widget = "K-" -> @ - 1
                         [] OTHER -> @, 12, 20)]]

\* main.cpp lines 826-835
EditorClamp(p) ==
    [p EXCEPT
       !.unitsPerPackage = Clamp(@, 1, 1000),
       !.capacityPackages = Clamp(@, 0, 5000),
       !.shelfLifeDays = Clamp(@, 1, 365),
       !.discountBeforeDays = Clamp(@, 0, 365),
       !.basePricePerUnit = Max(1, @),
       !.discountPercent = Clamp(@, 0, 95),
       !.reorderThreshold = Clamp(@, 0, Clamp(p.capacityPackages, 0, 5000)),
       !.reorderAmount = Clamp(@, 0, Clamp(p.capacityPackages, 0, 5000))]

\* main.cpp lines 790-822: the rows of the table are 0 .. cfg.K - 1
MainProductEditor(f) ==
    [f EXCEPT
       !.pastEnd = @ \/ f.s.cfg.K > Len(f.s.products)
                     \/ f.s.cfg.K > Len(f.s.inv),
       !.s.products = [i \in 1..Len(@) |-> EditorClamp(@[i])]]

\* main.cpp lines 688-697 and 724-746: the shops drawn are 0 .. cfg.M - 1,
\* and the animations index the cfg.M positions by their shopId
MainCanvas(f) ==
    [f EXCEPT
       !.pastEnd = @ \/ f.s.cfg.M > Len(f.s.shopNames)
                     \/ \E i \in 1..Len(f.s.dailyAnims) :
                           /\ f.s.dailyAnims[i].type
                                 \in {"OrderPaper", "ShipmentTruck"}
                           /\ f.s.dailyAnims[i].shopId >= f.s.cfg.M]

MainEnd(f, in) ==
    MainCanvas(MainProductEditor(
        MainFields(MainButtons(MainTimer(f, in.tick), in.widget),
                   in.widget)))

MainDone(f, in) ==
    /\ ~f.undefined
    /\ Commit(f.s)
    /\ ui' = [running |-> f.running, frames |-> ui.frames + 1,
              ended |-> "no"]
    /\ lastCall' = "Frame"
    /\ callArg' = in
    /\ UNCHANGED <<statsHistory, opDone, twin, placed, edited, prior>>

\* a frame that goes through, reads past the end of a container included
MainFrame ==
    /\ ui.ended = "no"
    /\ ui.frames < MaxMainFrames
    /\ \E in \in MainInputs :
          MainDone(MainEnd(MainBegin(Self, ui), in), in)

MainStopped(f, in, how) ==
    /\ ui' = [ui EXCEPT !.frames = @ + 1, !.ended = how]
    /\ lastCall' = "Frame"
    /\ callArg' = in
    /\ UNCHANGED <<progVars, ev, statsHistory, opDone, twin, placed, edited,
                   prior>>

\* a frame in which a read past the end of a container ends the process
MainCrash ==
    /\ ui.ended = "no"
    /\ ui.frames < MaxMainFrames
    /\ \E in \in MainInputs :
          /\ ~MainEnd(MainBegin(Self, ui), in).undefined
          /\ MainEnd(MainBegin(Self, ui), in).pastEnd
          /\ MainStopped(MainEnd(MainBegin(Self, ui), in), in, "crash")

\* a frame that advances the day with cfg.K beyond the ledger
MainUndefined ==
    /\ ui.ended = "no"
    /\ ui.frames < MaxMainFrames
    /\ \E in \in MainInputs :
          /\ MainEnd(MainBegin(Self, ui), in).undefined
          /\ MainStopped(MainEnd(MainBegin(Self, ui), in), in, "undefined")

NextMain ==
    \/ MainFrame
    \/ MainCrash
    \/ MainUndefined

SpecMain == InitMain /\ [][NextMain]_vars

(***************************************************************************)
(* Properties.                                                             *)
(***************************************************************************)
SeqAll(q, P(_)) == \A i \in 1..Len(q) : P(q[i])
SeqAny(q, P(_)) == \E i \in 1..Len(q) : P(q[i])

AfterAdvance == lastCall = "AdvanceDay" /\ ev.effective

\* C1: immediately after every Receive into the ledger (the initial stock
\* of create/reset and every accepted supplier arrival) the product's
\* TotalPackages is at most its current capacityPackages.
C1_CapacityAfterReceive ==
    SeqAll(ev.recv, LAMBDA e : e.total <= e.cap)

\* an accepted arrival that filled the product up to its capacity, the rest
\* of the delivery being refused
C1_Witness ==
    /\ AfterAdvance
    /\ SeqAny(ev.arr, LAMBDA a : a.accepted > 0 /\ a.accepted < a.pk
                                 /\ a.total = a.cap)
    /\ SeqAny(ev.recv, LAMBDA e : e.total = e.cap)

\* C2 as claimed: once WriteOffExpired(pid) has returned, no batch with
\* daysLeft <= 0 remains anywhere in that product's queue.
C2_NoExpiredLeft ==
    SeqAll(ev.wo, LAMBDA e : SeqAll(e.qAfter, LAMBDA b : b.daysLeft > 0))

SumStats(h) ==
    [revenue |-> SumSeq([i \in 1..Len(h) |-> h[i].revenue]),
     discountLoss |-> SumSeq([i \in 1..Len(h) |-> h[i].discountLoss]),
     writeOffLoss |-> SumSeq([i \in 1..Len(h) |-> h[i].writeOffLoss]),
     totalSoldUnits |-> SumSeq([i \in 1..Len(h) |-> h[i].totalSoldUnits]),
     totalWriteOffUnits |->
         SumSeq([i \in 1..Len(h) |-> h[i].totalWriteOffUnits])]

SoldToday == SumSeq([i \in 1..Len(ev.ful) |-> ev.ful[i].soldUnits])
WrittenOffToday ==
    SumSeq([i \in 1..Len(ev.wo) |-> ev.wo[i].pk * ev.wo[i].unitsPerPackage])

\* C3: the cumulative stats equal, field by field, the sum of today's stats
\* over the days advanced since the last create/reset; today's stats hold
\* nothing of an earlier day (they equal what was sold and written off
\* during the last effective AdvanceDay).
C3_StatsConservation ==
    /\ Len(statsHistory) = day
    /\ totalStats = SumStats(statsHistory)
    /\ AfterAdvance =>
          /\ todaysStats.totalSoldUnits = SoldToday
          /\ todaysStats.totalWriteOffUnits = WrittenOffToday

\* three days in, sales on the first two days and a write-off on the third
C3_Witness ==
    /\ AfterAdvance
    /\ Len(statsHistory) >= 3
    /\ statsHistory[1].revenue > 0
    /\ statsHistory[2].revenue > 0
    /\ todaysStats.totalWriteOffUnits > 0
    /\ totalStats.totalWriteOffUnits > todaysStats.totalWriteOffUnits

Outputs(s) ==
    [day |-> s.day, today |-> s.todaysStats, total |-> s.totalStats,
     rows |-> GetTodaysOrderRows(s), log |-> GetLog(s, 400)]

\* C4: two engines created or reset with the same seed and configuration
\* and driven by the same calls show the same today's and total stats, the
\* same order rows and the same log after every call.
C4_Determinism ==
    twin # NoTwin => Outputs(twin) = Outputs(Self)

\* both engines at the end of a run with sales and write-offs, and orders
\* on the last day
C4_Witness ==
    /\ twin # NoTwin
    /\ AfterAdvance
    /\ day = cfg.N
    /\ twin.day = cfg.N
    /\ twin.totalStats.totalWriteOffUnits > 0
    /\ totalStats.revenue > 0
    /\ Len(GetTodaysOrderRows(twin)) > 0
    /\ Len(GetLog(twin, 400)) > 100

\* C5: for every fulfilled order line deliveredPackages = min(chosenPackages,
\* stock before the line), deliveredUnits = deliveredPackages x
\* unitsPerPackage, the stock drops by exactly deliveredPackages and stays
\* >= 0; today's orders are all of the current day (nothing is carried over).
C5_DeliveryCappedByStock ==
    /\ SeqAll(ev.ful, LAMBDA f :
          /\ f.delivered = Min(f.chosen, f.available)
          /\ f.deliveredUnits = f.delivered * f.unitsPerPackage
          /\ f.totalAfter = f.available - f.delivered
          /\ f.totalAfter >= 0)
    /\ SeqAll(todaysOrders, LAMBDA o : o.day = day)

\* a line clipped by the stock: something, but less than chosen, delivered
C5_Witness ==
    /\ AfterAdvance
    /\ SeqAny(ev.ful, LAMBDA f : f.available > 0 /\ f.chosen > f.available
                                 /\ f.delivered = f.available)

IsNearest(r, requestedUnits, unitsPerPackage) ==
    /\ r \in {requestedUnits \div unitsPerPackage,
              (requestedUnits + unitsPerPackage - 1) \div unitsPerPackage}
    /\ 2 * (requestedUnits - r * unitsPerPackage) <= unitsPerPackage
    /\ 2 * (r * unitsPerPackage - requestedUnits) <= unitsPerPackage

\* C6 as claimed: chosenPackages = max(1, r + d) with r an integer nearest
\* to requestedUnits / unitsPerPackage and d in {-1, 0, 1}; so
\* chosenPackages >= 1 and floor - 1 <= chosenPackages <= ceil + 1 when
\* floor - 1 >= 1.
C6_QuantizationBounds ==
    SeqAll(ev.ful, LAMBDA f :
      LET fl == f.requestedUnits \div f.unitsPerPackage
          ce == (f.requestedUnits + f.unitsPerPackage - 1)
                    \div f.unitsPerPackage
      IN /\ \E r \in {fl, ce} : \E d \in {0 - 1, 0, 1} :
               /\ IsNearest(r, f.requestedUnits, f.unitsPerPackage)
               /\ f.chosen = Max(1, r + d)
         /\ f.chosen >= 1
         /\ fl - 1 >= 1 => (fl - 1 <= f.chosen /\ f.chosen <= ce + 1))

\* C7: when day >= N, AdvanceDay changes nothing of the engine.
C7_NoOpPastEnd ==
    [][(lastCall' = "AdvanceDay" /\ day >= cfg.N) => UNCHANGED progVars]_vars

\* AdvanceDay was called on an engine that had reached day N
C7_Witness ==
    /\ lastCall = "AdvanceDay"
    /\ ~ev.effective
    /\ day = cfg.N
    /\ Len(statsHistory) = cfg.N

\* C8: an AdvanceDay made while day < N increments day by exactly 1 (so day
\* counts the effective calls since create/reset and N is reached after N
\* of them), 0 <= day <= N always, and day decreases only through reset.
C8_DayCounter ==
    [][/\ (lastCall' = "AdvanceDay" /\ day < cfg.N) =>
             (day' = day + 1 /\ Len(statsHistory') = Len(statsHistory) + 1)
       /\ day' < day => lastCall' = "ResetSimulator"
       /\ day' \in 0..cfg'.N
       /\ Len(statsHistory') = day']_vars

\* the call that takes the engine to its terminal day
C8_Witness ==
    /\ AfterAdvance
    /\ day = cfg.N
    /\ Len(statsHistory) = cfg.N

ExpectedWant(e) ==
    Min(e.pc.reorderAmount,
        Max(0, e.pc.capacityPackages - (e.cur + e.incoming)))

\* C9: CreateSupplierRequestIfNeeded(pid) appends a delivery iff stock +
\* incoming < reorderThreshold and min(reorderAmount, max(0, capacity -
\* (stock + incoming))) > 0; then exactly one delivery for pid, of that
\* quantity, with a lead time within the configured bounds; otherwise the
\* pipeline is unchanged. stock is the stock after the day's fulfilment.
C9_SupplierRequest ==
    /\ SeqAll(ev.req, LAMBDA e :
      /\ e.cur = TotalPackages(inv, e.pid)
      /\ IF e.cur + e.incoming < e.pc.reorderThreshold /\ ExpectedWant(e) > 0
         THEN /\ Len(e.pipeAfter) = Len(e.pipeBefore) + 1
              /\ SubSeq(e.pipeAfter, 1, Len(e.pipeBefore)) = e.pipeBefore
              /\ e.pipeAfter[Len(e.pipeAfter)].productId = e.pid
              /\ e.pipeAfter[Len(e.pipeAfter)].packages = ExpectedWant(e)
              /\ e.pipeAfter[Len(e.pipeAfter)].daysUntilArrival
                     \in e.leadMin..e.leadMax
         ELSE e.pipeAfter = e.pipeBefore)
    /\ Want([DefaultProduct EXCEPT !.reorderThreshold = 6,
                                   !.capacityPackages = 20,
                                   !.reorderAmount = 12], 4, 0) = 12

\* a request cut down to the free capacity, and a product below its
\* threshold for which nothing is ordered
C9_Witness ==
    /\ AfterAdvance
    /\ SeqAny(ev.req, LAMBDA e :
          /\ Len(e.pipeAfter) > Len(e.pipeBefore)
          /\ ExpectedWant(e) < e.pc.reorderAmount)
    /\ SeqAny(ev.req, LAMBDA e :
          /\ Len(e.pipeAfter) > Len(e.pipeBefore)
          /\ ExpectedWant(e) = e.pc.reorderAmount)

DueNow(pl) == SelectSeq(pl, LAMBDA d : d.daysUntilArrival - 1 <= 0)
NotDue(pl) == SelectSeq(pl, LAMBDA d : d.daysUntilArrival - 1 > 0)
NewRequests ==
    SelectSeq(ev.req, LAMBDA e : Len(e.pipeAfter) > Len(e.pipeBefore))

\* C10: an arriving delivery of p packages is accepted for exactly
\* max(0, min(p, capacity - stock)) packages, as one new batch; the rest is
\* dropped: after the AdvanceDay the pipeline holds only the deliveries
\* that were not due and the requests placed today.
C10_ArrivalCapped ==
    AfterAdvance =>
      /\ Len(ev.arr) = Len(DueNow(ev.pipeBefore))
      /\ \A i \in 1..Len(ev.arr) :
            /\ ev.arr[i].pid = DueNow(ev.pipeBefore)[i].productId
            /\ ev.arr[i].pk = DueNow(ev.pipeBefore)[i].packages
      /\ SeqAll(ev.arr, LAMBDA a :
            /\ a.accepted = Max(0, Min(a.pk, a.cap - a.cur))
            /\ IF a.accepted > 0
               THEN /\ Len(a.qAfter) = Len(a.qBefore) + 1
                    /\ SubSeq(a.qAfter, 1, Len(a.qBefore)) = a.qBefore
                    /\ a.qAfter[Len(a.qAfter)].packages = a.accepted
               ELSE a.qAfter = a.qBefore
            /\ a.total = a.cur + a.accepted)
      /\ Len(pipeline) = Len(NotDue(ev.pipeBefore)) + Len(NewRequests)
      /\ \A i \in 1..Len(NotDue(ev.pipeBefore)) :
            pipeline[i] = [NotDue(ev.pipeBefore)[i] EXCEPT
                             !.daysUntilArrival = @ - 1]
      /\ \A i \in 1..Len(NewRequests) :
            /\ pipeline[Len(NotDue(ev.pipeBefore)) + i].productId
                   = NewRequests[i].pid
            /\ pipeline[Len(NotDue(ev.pipeBefore)) + i].packages
                   = ExpectedWant(NewRequests[i])

\* a delivery accepted in part while another delivery is still under way
C10_Witness ==
    /\ AfterAdvance
    /\ SeqAny(ev.arr, LAMBDA a : a.accepted > 0 /\ a.accepted < a.pk
                                 /\ Len(a.qAfter) >= 2)
    /\ Len(NotDue(ev.pipeBefore)) > 0

\* a delivery refused whole: the stock already exceeds the capacity
C10_WitnessRefused ==
    /\ AfterAdvance
    /\ SeqAny(ev.arr, LAMBDA a : a.pk > 0 /\ a.cap < a.cur /\ a.accepted = 0
                                 /\ a.qAfter = a.qBefore)

\* C11: a delivery placed during day d with lead time L >= 1 leaves the
\* pipeline and is processed as an arrival exactly during the AdvanceDay
\* that starts day d + L, never earlier and never on day d; between calls
\* every pending delivery has daysUntilArrival >= 1.
C11_LeadTime ==
    /\ Len(pipeline) = Len(placed.pending)
    /\ \A i \in 1..Len(pipeline) :
          /\ pipeline[i].productId = placed.pending[i].productId
          /\ pipeline[i].packages = placed.pending[i].packages
          /\ pipeline[i].daysUntilArrival
                 = placed.pending[i].day + placed.pending[i].lead - day
          /\ pipeline[i].daysUntilArrival >= 1
          /\ placed.pending[i].lead >= 1
    /\ AfterAdvance =>
          /\ Len(ev.arr) = Len(placed.arrived)
          /\ \A i \in 1..Len(ev.arr) :
                /\ ev.arr[i].pid = placed.arrived[i].productId
                /\ ev.arr[i].pk = placed.arrived[i].packages
                /\ placed.arrived[i].day + placed.arrived[i].lead = day
                /\ placed.arrived[i].day < day

\* a day on which a delivery placed three or more days earlier arrives while
\* a delivery placed later than it is still under way
C11_Witness ==
    /\ AfterAdvance
    /\ SeqAny(placed.arrived, LAMBDA a : a.lead >= 3 /\
          SeqAny(placed.pending, LAMBDA b : b.day > a.day /\ b.day < day))
    /\ SeqAny(placed.arrived, LAMBDA a : a.lead = 1)

ExpiredPackages(dq) ==
    SumSeq([i \in 1..Len(dq) |->
        IF dq[i].daysLeft <= 0 THEN dq[i].packages ELSE 0])

\* C12 as claimed: a batch is received with daysLeft = shelfLifeDays, so its
\* daysLeft is that number less the decrements since; the WriteOffExpired
\* that follows the decrement taking it to 0 removes it in full and removes
\* no batch that still has days left, and the day's write-off counters grow
\* by packages x unitsPerPackage units and units x basePricePerUnit money.
C12_ExpiryAfterShelfLife ==
    AfterAdvance =>
        /\ SeqAll(ev.wo, LAMBDA e :
              /\ e.qAfter = SelectSeq(e.qBefore, LAMBDA b : b.daysLeft > 0)
              /\ e.pk = ExpiredPackages(e.qBefore))
        /\ todaysStats.totalWriteOffUnits
              = SumSeq([i \in 1..Len(ev.wo) |->
                          ev.wo[i].pk * ev.wo[i].unitsPerPackage])
        /\ todaysStats.writeOffLoss
              = SumSeq([i \in 1..Len(ev.wo) |->
                          ev.wo[i].pk * ev.wo[i].unitsPerPackage
                              * ev.wo[i].basePrice])

\* the warehouse as it stood right after the discount pass e
AfterPass(e) == [inv EXCEPT ![e.pid + 1] = e.qAfter]

SecondPass(e) == ApplyDiscountIfNeeded(AfterPass(e), e.pid, e.pc)

\* C13: calling ApplyDiscountIfNeeded(pid) a second time, nothing having
\* happened in between, returns 0 affected packages and leaves every batch
\* of the warehouse unchanged.
C13_DiscountIdempotent ==
    SeqAll(ev.disc, LAMBDA e :
        /\ SecondPass(e).aff = 0
        /\ SecondPass(e).inv = AfterPass(e))

\* a pass that discounted some batches of a queue and left others alone
C13_Witness ==
    /\ AfterAdvance
    /\ SeqAny(ev.disc, LAMBDA e :
          /\ e.affected > 0
          /\ e.qAfter # e.qBefore
          /\ SeqAny(e.qAfter, LAMBDA b : ~b.discounted))

\* batches appended to the queue of pid by the call just made
NewBatches(pid) ==
    Len(SelectSeq(ev'.arr, LAMBDA a : a.pid = pid /\ a.accepted > 0))

\* batches leave a queue at the front only and enter it at the back only, so
\* the batches of the old queue still stored after the call are its last
\* Survivors(pid) ones, now at the front of the new queue
Survivors(pid) == Max(0, Len(inv'[pid + 1]) - NewBatches(pid))

Before(pid, j) == inv[pid + 1][Len(inv[pid + 1]) - Survivors(pid) + j]

\* C14: once the discounted flag of a batch is true it stays true for as
\* long as the batch is stored, under every API operation, AdvanceDay and a
\* SetProductConfigs that lowers discountBeforeDays or discountPercent
\* included (ResetSimulator removes every batch).
C14_DiscountSticks ==
    [][lastCall' # "ResetSimulator" =>
          \A pid \in 0..(Len(inv) - 1) :
              /\ Len(inv') = Len(inv)
              /\ Survivors(pid) <= Len(inv[pid + 1])
              /\ \A j \in 1..Survivors(pid) :
                    /\ inv'[pid + 1][j].daysLeft
                          = Before(pid, j).daysLeft
                              - (IF ev'.effective THEN 1 ELSE 0)
                    /\ inv'[pid + 1][j].packages <= Before(pid, j).packages
                    /\ Before(pid, j).discounted
                          => inv'[pid + 1][j].discounted]_vars

\* a discounted batch stored under a config whose discountBeforeDays has
\* since been set to 0 by SetProductConfigs
C14_Witness ==
    /\ lastCall = "SetProductConfigs"
    /\ \E pid \in 0..(Len(inv) - 1) :
          /\ products[pid + 1].discountBeforeDays = 0
          /\ products[pid + 1].discountPercent = 0
          /\ SeqAny(inv[pid + 1], LAMBDA b : b.discounted)

\* a discounted batch that lived through a day in which part of it was sold
C14_WitnessDay ==
    /\ AfterAdvance
    /\ SeqAny(ev.ful, LAMBDA f :
          /\ f.delivered > 0
          /\ f.qBefore # <<>> /\ f.qAfter # <<>>
          /\ Head(f.qBefore).discounted /\ Head(f.qAfter).discounted
          /\ Head(f.qAfter).packages < Head(f.qBefore).packages)

InDiscountWindow(b, pc) == b.daysLeft > 0 /\ b.daysLeft <= pc.discountBeforeDays

\* C15: after every effective AdvanceDay every stored batch with
\* 0 < daysLeft <= discountBeforeDays (of the config then current) is
\* discounted, whatever its position in the queue; and in no step does a
\* product whose discountBeforeDays is 0 acquire a discounted batch: no
\* stored batch of it gets the flag and no batch enters its queue with it.
C15_DiscountWindow ==
    [][/\ (lastCall' = "AdvanceDay" /\ ev'.effective) =>
              \A pid \in 0..(Len(inv') - 1) :
                  SeqAll(inv'[pid + 1], LAMBDA b :
                      InDiscountWindow(b, products'[pid + 1]) => b.discounted)
       /\ \A pid \in 0..(Len(inv') - 1) :
              products'[pid + 1].discountBeforeDays = 0 =>
                  IF lastCall' = "ResetSimulator"
                  THEN SeqAll(inv'[pid + 1], LAMBDA b : ~b.discounted)
                  ELSE \A j \in 1..Len(inv'[pid + 1]) :
                          inv'[pid + 1][j].discounted =>
                              /\ j <= Survivors(pid)
                              /\ Before(pid, j).discounted]_vars

\* a day whose discount pass marked a batch that was not at the front
C15_Witness ==
    /\ AfterAdvance
    /\ SeqAny(ev.disc, LAMBDA e :
          /\ Len(e.qBefore) >= 2
          /\ ~e.qBefore[2].discounted /\ e.qAfter[2].discounted)

\* a day whose discount pass went over the stock of a product with
\* discountBeforeDays = 0
C15_WitnessZero ==
    /\ AfterAdvance
    /\ SeqAny(ev.disc, LAMBDA e :
          e.pc.discountBeforeDays = 0 /\ e.qBefore # <<>>)

\* the call just made was SetProductConfigs with a list of length K
RightLength == lastCall' = "SetProductConfigs" /\ callArg' # "wrongLen"

\* C16: SetProductConfigs with a list of length K stores the clamped list,
\* leaves every batch's packages, daysLeft, discounted flag and position
\* as they were and sets its unitPrice from the new clamped config (base
\* price if undiscounted, base x (1 - discountPercent/100) if discounted);
\* it leaves day, pipeline, today's and total stats and the random stream
\* untouched.
C16_SetProductConfigsFrame ==
    [][RightLength =>
          /\ Len(EditedList(products, callArg')) = cfg.K
          /\ Len(products') = cfg.K
          /\ \A i \in 1..Len(products') :
                products'[i] = ClampProduct(EditedList(products, callArg')[i])
          /\ Len(inv') = Len(inv)
          /\ \A p \in 1..Len(inv) :
                /\ Len(inv'[p]) = Len(inv[p])
                /\ \A j \in 1..Len(inv[p]) :
                      /\ inv'[p][j].packages = inv[p][j].packages
                      /\ inv'[p][j].daysLeft = inv[p][j].daysLeft
                      /\ inv'[p][j].discounted = inv[p][j].discounted
                      /\ inv'[p][j].unitPrice =
                            IF inv[p][j].discounted
                            THEN products'[p].basePricePerUnit
                                     * (100 - products'[p].discountPercent)
                            ELSE products'[p].basePricePerUnit * 100
          /\ UNCHANGED <<day, pipeline, todaysStats, totalStats, rng>>]_vars

\* after an edit that set discountPercent to 0: a discounted batch now
\* priced at the base price, beside undiscounted stock of a product whose
\* base price the edit doubled
C16_Witness ==
    /\ lastCall = "SetProductConfigs"
    /\ callArg = "second"
    /\ \E p \in 1..Len(inv) :
          /\ products[p].discountPercent = 0
          /\ SeqAny(inv[p], LAMBDA b :
                b.discounted /\ b.unitPrice = products[p].basePricePerUnit * 100)
    /\ \E p \in 1..Len(inv) :
          /\ (p - 1) % 4 = 1
          /\ SeqAny(inv[p], LAMBDA b : ~b.discounted /\ b.packages > 0)

\* the engine as AdvanceDay left it at line 630, before the animations
BeforeAnimations == [Self EXCEPT !.rng = ev.rngBeforeAnims]

AfterAnimations ==
    BuildDailyAnimations(BeforeAnimations, ev.arrivals, todaysOrders, ev.due,
                         WriteOffByProduct(
                             SelectSeq(ev.wo, LAMBDA e : e.pk > 0)))

\* C17 as claimed: producing the day's animation list mutates no core
\* state; ledger, pipeline, stats, orders and the shared random stream are
\* the same after BuildDailyAnimations as before it.
C17_AnimationsFrame ==
    AfterAdvance =>
        /\ AfterAnimations.inv = BeforeAnimations.inv
        /\ AfterAnimations.pipeline = BeforeAnimations.pipeline
        /\ AfterAnimations.todaysStats = BeforeAnimations.todaysStats
        /\ AfterAnimations.totalStats = BeforeAnimations.totalStats
        /\ AfterAnimations.todaysOrders = BeforeAnimations.todaysOrders
        /\ AfterAnimations.rng = BeforeAnimations.rng

\* what GetTodaysOrderRows returns in the current state
Rows == GetTodaysOrderRows(Self)

\* C18 as claimed: for every order row the delivery was clipped by the
\* available stock (deliveredPackages < chosenPackages) if and only if
\* deliveredUnits < requestedUnits.
C18_ShortageFromUnits ==
    SeqAll(Rows, LAMBDA r :
        (r.deliveredPackages < r.chosenPackages)
            <=> (r.deliveredUnits < r.requestedUnits))

\* C18 amended: the rows of the day are the FulfillLine calls of the day in
\* order, and for every row deliveredPackages < chosenPackages if and only
\* if the stock available to the line was less than chosenPackages, if and
\* only if deliveredUnits < chosenPackages x unitsPerPackage.
C18_ShortageFromPackages ==
    AfterAdvance =>
        /\ Len(Rows) = Len(ev.ful)
        /\ \A i \in 1..Len(Rows) :
              /\ Rows[i].productId = ev.ful[i].pid
              /\ Rows[i].requestedUnits = ev.ful[i].requestedUnits
              /\ (Rows[i].deliveredPackages < Rows[i].chosenPackages)
                    <=> (ev.ful[i].available < Rows[i].chosenPackages)
              /\ (Rows[i].deliveredPackages < Rows[i].chosenPackages)
                    <=> (Rows[i].deliveredUnits
                           < Rows[i].chosenPackages * ev.ful[i].unitsPerPackage)

\* a day with a clipped row whose deliveredUnits still cover requestedUnits
\* and an unclipped row whose deliveredUnits fall short of requestedUnits
C18_Witness ==
    /\ AfterAdvance
    /\ SeqAny(Rows, LAMBDA r :
          /\ r.deliveredPackages < r.chosenPackages
          /\ r.deliveredUnits >= r.requestedUnits)
    /\ SeqAny(Rows, LAMBDA r :
          /\ r.deliveredPackages = r.chosenPackages
          /\ r.deliveredUnits < r.requestedUnits)

\* C19: SetProductConfigs with a list whose length differs from K changes
\* nothing: product configs, batch prices and every other field of the
\* engine are as before, so the number of products is still K.
C19_WrongLengthNoOp ==
    [][(lastCall' = "SetProductConfigs" /\ callArg' = "wrongLen") =>
          /\ Len(EditedList(products, "wrongLen")) # cfg.K
          /\ UNCHANGED progVars
          /\ Len(products') = cfg'.K]_vars

\* the state after such a call on an engine that has run a day and holds
\* stock
C19_Witness ==
    /\ lastCall = "SetProductConfigs"
    /\ callArg = "wrongLen"
    /\ day >= 1
    /\ \E p \in 1..Len(inv) : inv[p] # <<>>

\* lo <= v <= hi on floats
Within(v, lo, hi) == v # NaN /\ lo <= v /\ v <= hi

\* C20 as claimed: after SetRuntimeTuning with arbitrary arguments the
\* stored tunables are within bounds (0 <= orderProbability <= 1,
\* 1 <= maxLinesPerOrder <= 20, 1 <= minUnitsPerLine <= maxUnitsPerLine,
\* 0 <= discountDemandBoost <= 10), while N, M, K, seed, the supplier
\* lead-time bounds, day, ledger, pipeline, orders, stats, log and the
\* random stream are unchanged.
C20_TuningClamped ==
    [][lastCall' = "SetRuntimeTuning" =>
          /\ Within(cfg'.orderProbability, 0, 100)
          /\ cfg'.maxLinesPerOrder \in 1..20
          /\ 1 <= cfg'.minUnitsPerLine
          /\ cfg'.minUnitsPerLine <= cfg'.maxUnitsPerLine
          /\ Within(cfg'.discountDemandBoost, 0, 100)
          /\ cfg'.N = cfg.N /\ cfg'.M = cfg.M /\ cfg'.K = cfg.K
          /\ cfg'.seed = cfg.seed
          /\ cfg'.supplierLeadTimeMin = cfg.supplierLeadTimeMin
          /\ cfg'.supplierLeadTimeMax = cfg.supplierLeadTimeMax
          /\ UNCHANGED <<day, inv, pipeline, todaysOrders, todaysStats,
                         totalStats, log, rng>>]_vars

FreshlyReset == lastCall \in {"CreateSimulator", "ResetSimulator"}

\* x / 100 rounded to the nearest integer, for x >= 0
Hundredth(x) == (x + 50) \div 100

\* C21: immediately after create or reset day = 0, today's and total stats
\* are all zero, the pipeline, today's orders, the shipment map and the
\* animation list are empty, the log holds exactly one entry, and every
\* product holds exactly one batch, undiscounted, with daysLeft =
\* shelfLifeDays and packages = capacityPackages x f rounded to the nearest
\* integer for a factor f in [0.30, 0.70], that is an integer from
\* round(0.30 x capacity) to round(0.70 x capacity).
C21_FreshState ==
    FreshlyReset =>
        /\ day = 0
        /\ todaysStats = ZeroStats /\ totalStats = ZeroStats
        /\ pipeline = <<>> /\ todaysOrders = <<>>
        /\ shipmentsByDay = <<>> /\ dailyAnims = <<>>
        /\ Len(log) = 1
        /\ Len(inv) = cfg.K /\ Len(products) = cfg.K
        /\ \A p \in 1..Len(inv) :
              /\ Len(inv[p]) = 1
              /\ ~inv[p][1].discounted
              /\ inv[p][1].daysLeft = products[p].shelfLifeDays
              /\ inv[p][1].packages >= Hundredth(30 * products[p].capacityPackages)
              /\ inv[p][1].packages <= Hundredth(70 * products[p].capacityPackages)

\* the state after a reset with the out-of-range config
C21_Witness ==
    /\ lastCall = "ResetSimulator"
    /\ callArg = WildConfig
    /\ \E p, q \in 1..Len(inv) :
          inv[p][1].packages * products[q].capacityPackages
              # inv[q][1].packages * products[p].capacityPackages

Distinct(q) == \A i, j \in 1..Len(q) : i # j => q[i] # q[j]

\* what PickDistinctProductsWeighted(count) would return in this state
Picked(count) == PickDistinctProductsWeighted(Self, rng, count).chosen

PickCounts == {1, 5, cfg.K, cfg.K + 3}

\* C22: the orders generated on a day belong to pairwise distinct shops
\* with shopId in [0, M); each has between 1 and min(maxLinesPerOrder, K)
\* lines, whose productIds are pairwise distinct and in [0, K) and whose
\* requestedUnits lie in [minUnitsPerLine, maxUnitsPerLine];
\* PickDistinctProductsWeighted(count) returns exactly min(count, K)
\* distinct products.
C22_OrderShape ==
    /\ AfterAdvance =>
          /\ Distinct([i \in 1..Len(todaysOrders) |-> todaysOrders[i].shopId])
          /\ SeqAll(todaysOrders, LAMBDA o :
                /\ o.shopId \in 0..(cfg.M - 1)
                /\ Len(o.lines) >= 1
                /\ Len(o.lines) <= Min(cfg.maxLinesPerOrder, cfg.K)
                /\ Distinct([i \in 1..Len(o.lines) |-> o.lines[i].productId])
                /\ SeqAll(o.lines, LAMBDA ln :
                      /\ ln.productId \in 0..(cfg.K - 1)
                      /\ ln.requestedUnits >= cfg.minUnitsPerLine
                      /\ ln.requestedUnits <= cfg.maxUnitsPerLine))
    /\ \A count \in PickCounts :
          /\ Len(Picked(count)) = Min(count, cfg.K)
          /\ Distinct(Picked(count))
          /\ SeqAll(Picked(count), LAMBDA pid : pid \in 0..(cfg.K - 1))

\* a day on which two shops ordered, one of them the full number of lines,
\* while some product held discounted stock (so the weights differ)
C22_Witness ==
    /\ AfterAdvance
    /\ Len(todaysOrders) >= 2
    /\ SeqAny(todaysOrders, LAMBDA o :
          Len(o.lines) = Min(cfg.maxLinesPerOrder, cfg.K) /\ Len(o.lines) >= 2)
    /\ SeqAny(ev.disc, LAMBDA e : SeqAny(e.qAfter, LAMBDA b : b.discounted))

DeliveredLines(o) == SelectSeq(o.lines, LAMBDA ln : ln.deliveredPackages > 0)

ItemsOf(o) ==
    [i \in 1..Len(DeliveredLines(o)) |->
        <<DeliveredLines(o)[i].productId,
          DeliveredLines(o)[i].deliveredPackages>>]

Served(orders) == SelectSeq(orders, LAMBDA o : DeliveredLines(o) # <<>>)

\* one shipment per order with a delivered line, for the day after the order
ShipmentsOf(orders) ==
    [i \in 1..Len(Served(orders)) |->
        [day |-> Served(orders)[i].day + 1,
         shopId |-> Served(orders)[i].shopId,
         items |-> ItemsOf(Served(orders)[i])]]

StoredUnder(m, d) == IF d \in DOMAIN m THEN m[d] ELSE <<>>

\* C23: for each order of day d with at least one line with
\* deliveredPackages > 0 exactly one shipment for that shop is stored under
\* day d + 1, listing exactly the lines with deliveredPackages > 0 and
\* their deliveredPackages; an order with no delivered line produces no
\* shipment; and the shipments looked up as due on day d + 1 are exactly
\* those produced on day d.
C23_Shipments ==
    [][(lastCall' = "AdvanceDay" /\ ev'.effective) =>
          /\ SeqAll(todaysOrders', LAMBDA o : o.day = day')
          /\ StoredUnder(shipmentsByDay', day' + 1) = ShipmentsOf(todaysOrders')
          /\ SeqAll(todaysOrders, LAMBDA o : o.day = day)
          /\ ev'.due = ShipmentsOf(todaysOrders)
          /\ ev'.due = StoredUnder(shipmentsByDay, day')]_vars

\* a day with shipments due from the day before, an order of which nothing
\* was delivered and an order of which only some lines were delivered
C23_Witness ==
    /\ AfterAdvance
    /\ ev.due # <<>>
    /\ SeqAny(todaysOrders, LAMBDA o : DeliveredLines(o) = <<>>)
    /\ SeqAny(todaysOrders, LAMBDA o :
          DeliveredLines(o) # <<>> /\ Len(DeliveredLines(o)) < Len(o.lines))

\* the day as it would run from the current state had no shipment ever
\* been scheduled
DayWithoutShipments == AdvanceDay([Self EXCEPT !.shipmentsByDay = <<>>])

\* the call just made left the engine, animations and shipment map apart,
\* as r has it
SameCore(r) ==
    /\ inv' = r.inv
    /\ pipeline' = r.pipeline
    /\ todaysStats' = r.todaysStats
    /\ totalStats' = r.totalStats
    /\ todaysOrders' = r.todaysOrders
    /\ products' = r.products
    /\ log' = r.log
    /\ rng' = r.rng
    /\ day' = r.day

\* C24: the shipment map never feeds back into the simulation: a day on
\* which shipments are due leaves ledger, pipeline, stats, orders, log and
\* random stream exactly as the same day without any scheduled shipment
\* would, and the stock of an order is deducted at its fulfilment, on the
\* order day.
C24_ShipmentsDescriptive ==
    [][(lastCall' = "AdvanceDay" /\ ev'.effective) =>
          /\ SameCore(DayWithoutShipments)
          /\ SeqAll(ev'.ful, LAMBDA f :
                f.totalAfter = f.available - f.delivered)]_vars

\* a day on which shipments were due and stock was delivered to new orders
C24_Witness ==
    /\ AfterAdvance
    /\ ev.due # <<>>
    /\ SeqAny(ev.due, LAMBDA sh : Len(sh.items) >= 2)
    /\ SeqAny(ev.ful, LAMBDA f : f.delivered > 0)

\* C25 as claimed: in every state between API calls every product config
\* has unitsPerPackage >= 1, capacityPackages >= 0, shelfLifeDays >= 1,
\* 0 <= discountBeforeDays <= shelfLifeDays, 0 <= discountPercent <= 95,
\* 0 <= reorderThreshold <= capacityPackages and 0 <= reorderAmount <=
\* capacityPackages, and the SimConfig has 1 <= supplierLeadTimeMin <=
\* supplierLeadTimeMax and 1 <= minUnitsPerLine <= maxUnitsPerLine,
\* whatever values were passed in.
C25_ConfigsInBounds ==
    /\ SeqAll(products, LAMBDA pc :
          /\ pc.unitsPerPackage >= 1
          /\ pc.capacityPackages >= 0
          /\ pc.shelfLifeDays >= 1
          /\ pc.discountBeforeDays >= 0
          /\ pc.discountBeforeDays <= pc.shelfLifeDays
          /\ Within(pc.discountPercent, 0, 95)
          /\ pc.reorderThreshold >= 0
          /\ pc.reorderThreshold <= pc.capacityPackages
          /\ pc.reorderAmount >= 0
          /\ pc.reorderAmount <= pc.capacityPackages)
    /\ 1 <= cfg.supplierLeadTimeMin
    /\ cfg.supplierLeadTimeMin <= cfg.supplierLeadTimeMax
    /\ 1 <= cfg.minUnitsPerLine
    /\ cfg.minUnitsPerLine <= cfg.maxUnitsPerLine

\* the log with its first d entries dropped
DropOldest(lg, d) == SubSeq(lg, d + 1, Len(lg))

\* the last n entries of the log, oldest first
MostRecent(lg, n) == [i \in 1..n |-> lg[Len(lg) - n + i]]

LogRequests == {0 - 7, 0, 1, 5, 400, 1000}

\* what is left of the earlier log after a call is the log without its d
\* oldest entries, at the head of the new log; entries are dropped only
\* when the new log is full
KeptOldest(before, after) ==
    \E d \in 0..Len(before) :
        /\ d > 0 => Len(after) = 400
        /\ Len(before) - d <= Len(after)
        /\ SubSeq(after, 1, Len(before) - d) = DropOldest(before, d)

\* C26: the log never holds more than 400 entries and loses its oldest
\* entries first when it is full: across every call the entries that remain
\* are the most recent ones in their order, and one more push onto a full
\* log drops exactly the first entry.  GetLog(maxLines) returns the most
\* recent min(log size, max(1, maxLines)) entries in chronological order.
C26_LogBounded ==
    /\ [](/\ Len(log) <= 400
          /\ LET e == LogEntry("extra", 0, 0, 0)
             IN PushLog(log, e) = IF Len(log) < 400 THEN Append(log, e)
                                  ELSE Append(Tail(log), e)
          /\ \A m \in LogRequests :
                GetLog(Self, m)
                    = MostRecent(log, Min(Len(log), Max(1, m))))
    /\ [][lastCall' # "ResetSimulator" => KeptOldest(log, log')]_vars

\* a day on which a full log lost entries, and a request for five lines of it
C26_Witness ==
    /\ AfterAdvance
    /\ Len(log) = 400
    /\ log[1].k # "reset"
    /\ Len(GetLog(Self, 5)) = 5
    /\ Len(GetLog(Self, 1000)) = 400

\* what a function gives back when it has nothing to report: 0, false, an
\* empty list, a default struct, or nothing at all
NothingFrom(fn) ==
    CASE fn \in {"GetDay", "GetStockPackages"} -> 0
      [] fn = "HasDiscountStock" -> FALSE
      [] fn \in {"GetShopNames", "GetProductConfigs", "GetTodaysOrderRows",
                 "GetLog", "GetDailyAnims"} -> <<>>
      [] fn \in {"GetTodaysStats", "GetTotalStats"} -> ZeroStats
      [] fn = "GetConfigCopy" -> DefaultConfig
      [] OTHER -> "void"

OutOfRange(pid) == pid < 0 \/ pid >= cfg.K

\* C27: GetStockPackages and HasDiscountStock called with a product index
\* below 0 or not below K return 0 and false; every API function called
\* with a null handle returns its default (0, false, empty, default struct)
\* or does nothing and leaves the handle null; none of these calls changes
\* the engine's state.
C27_HarmlessDefaults ==
    [][/\ lastCall' = "NullHandle" =>
            /\ callArg'.ret = NothingFrom(callArg'.fn)
            /\ callArg'.h = Null
            /\ UNCHANGED progVars
       /\ (lastCall' = "Accessor" /\ OutOfRange(callArg'.arg)) =>
            /\ callArg'.ret = NothingFrom(callArg'.fn)
            /\ UNCHANGED progVars]_vars

\* GetStockPackages answered 0 for an index out of range on an engine
\* whose every product is in stock
C27_Witness ==
    /\ lastCall = "Accessor"
    /\ callArg.fn = "GetStockPackages"
    /\ callArg.arg = cfg.K
    /\ callArg.ret = 0
    /\ day > 0
    /\ \A pid \in 0..(cfg.K - 1) : TotalPackages(inv, pid) > 0

\* a null handle given to GetLog after a day of the engine
C27_WitnessNull ==
    /\ lastCall = "NullHandle"
    /\ callArg.fn = "GetLog"
    /\ callArg.ret = <<>>
    /\ day > 0

\* the packages of the first d batches of a queue
RECURSIVE PackagesAhead(_, _)
PackagesAhead(q, d) ==
    IF d = 0 THEN 0 ELSE q[d].packages + PackagesAhead(q, d - 1)

\* after is before without its first d batches, in the same order, the
\* first of the remaining batches holding p packages
SuffixFrom(before, after, d) ==
    /\ Len(after) = Len(before) - d
    /\ \A i \in 2..Len(after) : after[i] = before[d + i]
    /\ after # <<>> =>
          /\ after[1] = [before[d + 1] EXCEPT !.packages = after[1].packages]
          /\ after[1].packages > 0
          /\ after[1].packages <= before[d + 1].packages

\* C28: FulfillLine takes packages from a batch only after every batch
\* ahead of it has been drained and removed: after the call the product's
\* queue is a suffix of the queue before it in unchanged order with at most
\* its first batch reduced, the delivered packages are those of the removed
\* batches and of that reduction, and no other product's queue has changed.
C28_FifoDrain ==
    SeqAll(ev.ful, LAMBDA o :
        /\ \E d \in 0..Len(o.qBefore) :
              /\ SuffixFrom(o.qBefore, o.qAfter, d)
              /\ o.delivered
                   = PackagesAhead(o.qBefore, d)
                     + (IF o.qAfter = <<>> THEN 0
                        ELSE o.qBefore[d + 1].packages - o.qAfter[1].packages)
        /\ o.qBefore = o.wBefore[o.pid + 1]
        /\ o.qAfter = o.wAfter[o.pid + 1]
        /\ Len(o.wAfter) = Len(o.wBefore)
        /\ \A p \in 1..Len(o.wBefore) :
              p # o.pid + 1 => o.wAfter[p] = o.wBefore[p])

\* a line that drained a whole batch and part of the one behind it
C28_Witness ==
    /\ AfterAdvance
    /\ SeqAny(ev.ful, LAMBDA o :
          /\ Len(o.qBefore) >= 2
          /\ Len(o.qAfter) = Len(o.qBefore) - 1
          /\ o.qAfter[1].packages < o.qBefore[2].packages)

\* equality of two floats: a NaN equals nothing
Equal(a, b) == a # NaN /\ b # NaN /\ a = b

RECURSIVE SumMoney(_)
SumMoney(q) == IF q = <<>> THEN 0 ELSE Plus(Head(q), SumMoney(Tail(q)))

\* what n packages taken from the front of queue q are worth less than at
\* the base price: nothing for a batch without discount,
\* units x basePrice x discountPercent / 100 for a discounted one
RECURSIVE LossOf(_, _, _)
LossOf(q, n, pc) ==
    IF n = 0 \/ q = <<>> THEN 0
    ELSE Plus(IF Head(q).discounted
              THEN Times(Min(n, Head(q).packages) * pc.unitsPerPackage
                           * pc.basePricePerUnit,
                         pc.discountPercent)
              ELSE 0,
              LossOf(Tail(q), n - Min(n, Head(q).packages), pc))

\* the price a batch has under the config pc
PriceUnder(b, pc) ==
    IF b.discounted
    THEN Times(pc.basePricePerUnit, Minus(100, pc.discountPercent))
    ELSE pc.basePricePerUnit * 100

\* C29: for every day, today's revenue + today's discountLoss equals the
\* sum over the packages sold that day of unitsPerPackage x basePricePerUnit
\* of their product; units sold from batches without discount add nothing
\* to discountLoss and units sold from discounted batches add
\* units x basePrice x discountPercent / 100; and whenever a sale happens
\* the prices stored in the batches are those of the current config.
C29_RevenueIdentity ==
    AfterAdvance =>
        /\ Equal(Plus(todaysStats.revenue, todaysStats.discountLoss),
                 SumMoney([i \in 1..Len(ev.ful) |->
                     ev.ful[i].delivered
                       * products[ev.ful[i].pid + 1].unitsPerPackage
                       * products[ev.ful[i].pid + 1].basePricePerUnit * 100]))
        /\ Equal(todaysStats.discountLoss,
                 SumMoney([i \in 1..Len(ev.ful) |->
                     LossOf(ev.ful[i].qBefore, ev.ful[i].delivered,
                            products[ev.ful[i].pid + 1])]))
        /\ SeqAll(ev.ful, LAMBDA o :
              o.delivered > 0 =>
                SeqAll(o.qBefore, LAMBDA b :
                    Equal(b.unitPrice, PriceUnder(b, products[o.pid + 1]))))

\* a day with sales from discounted and from undiscounted batches
C29_Witness ==
    /\ AfterAdvance
    /\ todaysStats.discountLoss # NaN
    /\ todaysStats.discountLoss > 0
    /\ SeqAny(ev.ful, LAMBDA o :
          o.delivered > 0 /\ ~o.qBefore[1].discounted)
    /\ SeqAny(ev.ful, LAMBDA o :
          /\ Len(o.qBefore) >= 2
          /\ o.delivered > o.qBefore[1].packages
          /\ o.qBefore[1].discounted
          /\ ~o.qBefore[2].discounted)

\* the batches the day's write-off removed from the front of product pid
PoppedToday(pid) == Len(ev.wo[pid + 1].qBefore) - Len(ev.wo[pid + 1].qAfter)

\* the queue of product pid as the day's orders find it
AtFulfilment(pid) == ev.disc[pid + 1].qAfter

\* an arriving batch is the last of its queue right after Receive, and
\* keeps that place until batches are removed from the front
ArrivedOrder(a) ==
    LET k == Len(a.qAfter)
    IN /\ a.qAfter[k].daysLeft = a.shelf
       /\ ev.wo[a.pid + 1].qBefore[k].daysLeft = a.shelf - 1
       /\ k > PoppedToday(a.pid) =>
             AtFulfilment(a.pid)[k - PoppedToday(a.pid)].daysLeft
                 = a.shelf - 1

\* C30: within one AdvanceDay arrivals are received before the shelf life
\* is decremented and before the write-off: a batch received from a
\* supplier on day d has daysLeft = shelfLifeDays - 1 when that day's
\* orders are fulfilled, and for a product with shelfLifeDays = 1 an
\* arriving batch is written off in the same AdvanceDay, so that none of
\* its packages is sold.
C30_ArrivalsBeforeAgeing ==
    AfterAdvance =>
        SeqAll(ev.arr, LAMBDA a :
            a.accepted > 0 =>
                /\ ArrivedOrder(a)
                /\ a.shelf = 1 => Len(a.qAfter) <= PoppedToday(a.pid))

\* the batches of its queue a FulfillLine call took packages from: those
\* with fewer packages ahead of them than the call delivered
TakenFrom(o) ==
    {i \in 1..Len(o.qBefore) : PackagesAhead(o.qBefore, i - 1) < o.delivered}

\* C31: no expired stock is ever sold: FulfillLine never takes packages from
\* a batch whose daysLeft <= 0, so every unit counted in totalSoldUnits came
\* from a batch with daysLeft >= 1 at the time of the sale.
C31_NoExpiredSold ==
    SeqAll(ev.ful, LAMBDA o :
        \A i \in TakenFrom(o) : o.qBefore[i].daysLeft >= 1)

\* daysLeft does not decrease from the front of a queue to its back
OldestFirst(q) == \A i \in 1..(Len(q) - 1) : q[i].daysLeft <= q[i + 1].daysLeft

\* the batches with daysLeft <= 0 are the first ones of the queue
ExpiredIsPrefix(q) ==
    \A i \in 1..Len(q) : \A j \in 1..Len(q) :
        (i < j /\ q[j].daysLeft <= 0) => q[i].daysLeft <= 0

\* C32: a product whose shelfLifeDays has not been changed through
\* SetProductConfigs since create/reset has, in every reachable state and
\* when the day's write-off looks at it, a queue whose daysLeft does not
\* decrease from front to back, so its batches with daysLeft <= 0 form a
\* prefix of the queue (all of them, when no product's shelfLifeDays has
\* been changed).
C32_OldestFirst ==
    /\ \A p \in 1..Len(inv) :
          p \notin edited.shelf =>
              OldestFirst(inv[p]) /\ ExpiredIsPrefix(inv[p])
    /\ SeqAll(ev.wo, LAMBDA e :
          (e.pid + 1) \notin edited.shelf =>
              /\ OldestFirst(e.qBefore)
              /\ ExpiredIsPrefix(e.qBefore)
              /\ SeqAll(e.qAfter, LAMBDA b : b.daysLeft > 0))

\* no shelfLifeDays was ever changed, other product fields were; a new
\* batch behind an older one
C32_Witness ==
    /\ AfterAdvance
    /\ edited.shelf = {}
    /\ edited.any
    /\ \E p \in 1..Len(inv) :
          /\ Len(inv[p]) >= 2
          /\ inv[p][1].daysLeft < inv[p][2].daysLeft

\* a write-off of an expired front batch that left a younger batch behind
C32_WitnessWriteOff ==
    /\ AfterAdvance
    /\ SeqAny(ev.wo, LAMBDA e :
          /\ (e.pid + 1) \notin edited.shelf
          /\ e.pk > 0
          /\ e.qAfter # <<>>)

AllStocked(q) == SeqAll(q, LAMBDA b : b.packages >= 1)

\* C33: every batch stored in the ledger has packages >= 1, in every
\* reachable state and after each Receive, write-off, discount pass and
\* FulfillLine call inside AdvanceDay: Receive appends no batch with
\* packages <= 0 and FulfillLine removes a batch as soon as its packages
\* reach 0.
C33_NoEmptyBatch ==
    /\ SeqAll(inv, AllStocked)
    /\ SeqAll(ev.arr, LAMBDA e : AllStocked(e.qAfter))
    /\ SeqAll(ev.wo, LAMBDA e : AllStocked(e.qAfter))
    /\ SeqAll(ev.disc, LAMBDA e : AllStocked(e.qAfter))
    /\ SeqAll(ev.ful, LAMBDA e : SeqAll(e.wAfter, AllStocked))

\* a line that took the last package of a product, and a line that left
\* packages in the queue
C33_Witness ==
    /\ AfterAdvance
    /\ SeqAny(ev.ful, LAMBDA o :
          o.delivered > 0 /\ o.qAfter = <<>> /\ o.delivered = o.chosen)
    /\ SeqAny(ev.ful, LAMBDA o :
          o.delivered > 0 /\ o.qAfter # <<>>)

WithinCapacity(w, pl, ps) ==
    \A p \in 1..Len(ps) :
        TotalPackages(w, p - 1) + IncomingFrom(pl, p - 1)
            <= ps[p].capacityPackages

\* C34: as long as SetProductConfigs has changed no product config since
\* the last create or reset, stock plus packages on their way stay within
\* the capacity of every product, every arrival is accepted in full and
\* the log holds no overflow warning.
C34_NeverClipped ==
    ~edited.any =>
        /\ WithinCapacity(inv, pipeline, products)
        /\ SeqAll(ev.req, LAMBDA e :
              TotalPackages(inv, e.pid) + IncomingFrom(e.pipeAfter, e.pid)
                  <= e.pc.capacityPackages)
        /\ SeqAll(ev.arr, LAMBDA e : e.accepted = e.pk)
        /\ SeqAll(log, LAMBDA l : l.k # "overflow")

\* an arrival accepted in full on a day on which a further request of
\* the same product went out, under generated product configs
C34_Witness ==
    /\ AfterAdvance
    /\ ~edited.any
    /\ SeqAny(ev.arr, LAMBDA e :
          /\ e.accepted = e.pk /\ e.pk > 0
          /\ SeqAny(pipeline, LAMBDA d : d.productId = e.pid))

\* an arrival clipped by the capacity after a product edit
C34_WitnessEdited ==
    /\ edited.any
    /\ SeqAny(ev.arr, LAMBDA e : e.accepted < e.pk)

AcceptedOf(arr, pid) ==
    SumSeq([i \in 1..Len(arr) |->
              IF arr[i].pid = pid THEN arr[i].accepted ELSE 0])

WrittenOffOf(wo, pid) ==
    SumSeq([i \in 1..Len(wo) |-> IF wo[i].pid = pid THEN wo[i].pk ELSE 0])

DeliveredOf(rows, pid) ==
    SumSeq([i \in 1..Len(rows) |->
              IF rows[i].productId = pid THEN rows[i].deliveredPackages
              ELSE 0])

ConservedOver(w, w2, e2, rows2) ==
    \A p \in 1..Len(w) :
        TotalPackages(w2, p - 1) =
            TotalPackages(w, p - 1) + AcceptedOf(e2.arr, p - 1)
                - WrittenOffOf(e2.wo, p - 1) - DeliveredOf(rows2, p - 1)

\* C35: over every effective AdvanceDay and for every product, the stock
\* after the day equals the stock before it plus the packages accepted
\* from arrivals minus the packages written off minus the sum of
\* deliveredPackages over the day's order lines of that product.
C35_PackageConservation ==
    [][lastCall' = "AdvanceDay" /\ ev'.effective =>
          ConservedOver(inv, inv', ev', RowsFrom(todaysOrders'))]_vars

\* a day on which one product had an accepted arrival and a delivery, and
\* some product a write-off
C35_Witness ==
    /\ AfterAdvance
    /\ \E p \in 1..Len(inv) :
          /\ AcceptedOf(ev.arr, p - 1) > 0
          /\ DeliveredOf(Rows, p - 1) > 0
    /\ \E p \in 1..Len(inv) : WrittenOffOf(ev.wo, p - 1) > 0

SumDeliveredUnits(rows) ==
    SumSeq([i \in 1..Len(rows) |-> rows[i].deliveredUnits])

\* C36: after every effective AdvanceDay today's totalSoldUnits equals the
\* sum of deliveredUnits over the rows GetTodaysOrderRows returns, and
\* today's totalWriteOffUnits equals the sum, over the products, of the
\* packages written off that day times the product's unitsPerPackage.
C36_UnitsMatchRows ==
    AfterAdvance =>
        /\ todaysStats.totalSoldUnits = SumDeliveredUnits(Rows)
        /\ todaysStats.totalWriteOffUnits = WrittenOffToday

\* a day with units sold on two rows and packages of more than one unit
\* written off
C36_Witness ==
    /\ AfterAdvance
    /\ Len(Rows) >= 2
    /\ SumDeliveredUnits(Rows) > Rows[1].deliveredUnits
    /\ Rows[1].deliveredUnits > 0
    /\ SeqAny(ev.wo, LAMBDA e : e.pk > 0 /\ e.unitsPerPackage > 1)

\* C37: ResetSimulator(h, cfg), whatever the engine went through before,
\* leaves the engine in exactly the state CreateSimulator(cfg) produces:
\* the same clamped config, random stream, day, ledger, product configs,
\* shop names, pipeline, shipments, orders, stats, log and animations.
C37_ResetIsCreate ==
    lastCall = "ResetSimulator" => Self = CreateSimulator(callArg)

\* a reset of an engine that had run for some days, to a config that the
\* clamping changes
C37_Witness ==
    /\ lastCall = "ResetSimulator"
    /\ prior >= 3
    /\ callArg = WildConfig
    /\ cfg # callArg

\* a reset of an engine at the end of its run to the default config
C37_WitnessDefault ==
    /\ lastCall = "ResetSimulator"
    /\ prior = 10
    /\ callArg # WildConfig

\* C38: when the Reset button is handled in a frame, the engine holds at
\* the end of that frame the product configs that ResetSimulator has
\* regenerated for the config it was given; the SetProductConfigs call
\* made later in the frame with the list read before the reset does not
\* replace them.
C38_ResetKeepsRegenerated ==
    (lastCall = "Frame" /\ ui.reset # Null) =>
        products = CreateSimulator(ui.reset).products

\* a frame with a Reset click to another number of products: the list read
\* before the reset has the wrong length and is refused
C38_WitnessOtherK ==
    /\ lastCall = "Frame"
    /\ ui.reset # Null
    /\ ui.reset.K = 13
    /\ products = CreateSimulator(ui.reset).products

\* C39: in every state the UI loop of the standalone simulator reaches,
\* cfg.K is the number of product configs and of ledger queues and cfg.M
\* is the number of shop names.
C39_SizesMatchConfig ==
    ui.ended = "no" =>
        /\ cfg.K = Len(products)
        /\ cfg.K = Len(inv)
        /\ cfg.M = Len(shopNames)

\* K raised and a Reset clicked in a later frame: the containers follow
C39_WitnessReset ==
    /\ ui.ended = "no"
    /\ lastCall = "Frame"
    /\ callArg.widget = "reset"
    /\ cfg.K = 13
    /\ Len(products) = 13 /\ Len(inv) = 13
====
